---- MODULE Spec2Model ----
(***************************************************************************)
(* Model of the TISS rule engine (rule-engine.ts, class RuleEngine): the   *)
(* rule registry (a Map keyed by rule id, in insertion order) and one      *)
(* validation pass of execute / executeSpecific, cut at its await points.  *)
(*                                                                         *)
(* A rule object is identified by its id and priority; enabled is its one  *)
(* mutable field.  What appliesTo(context) and validate(context) do is the *)
(* rule's own code applied to the caller's context.  appliesTo is a pure   *)
(* function of the context: the answers of the rules are drawn with the    *)
(* context, when the pass starts.  The outcome of validate is drawn when   *)
(* its promise settles, and a rule called twice in a pass settles the same *)
(* way.  performance.now() is the environment's clock: the timeout         *)
(* comparison is a free boolean, read only where the code reads the clock. *)
(***************************************************************************)
EXTENDS Integers, Sequences, FiniteSets, TLC

\* Longest ruleIds array handed to executeSpecific.
MaxRuleIds == 2

Ids == {"a", "b", "c"}
Priorities == {10, 20}
Severities == {"error", "warning", "info"}

\* ValidationRule (rule-types.ts): id, priority, enabled.
RuleObjs == [id : Ids, priority : Priorities, enabled : BOOLEAN]

\* RuleEngineOptions (rule-types.ts).  timeoutMs 0 is "no limit" (falsy).
OptionSets == [stopOnFirstError : BOOLEAN, timeoutMs : {0, 50}, parallel : BOOLEAN]
NoOptions == [stopOnFirstError |-> FALSE, timeoutMs |-> 0, parallel |-> FALSE]

\* What one call of rule.appliesTo(context) can do.
AppliesOutcomes == {"true", "false", "throw"}

\* What one call of rule.validate(context) can settle to: it throws or
\* rejects, resolves to something that is no array, or resolves to an array
\* of findings (given here by their severities, in the order returned).
FindingLists == {<<"info", "error">>, <<"warning", "info">>}
Throws == [tag |-> "throw", sevs |-> << >>]
NonArray == [tag |-> "nonarray", sevs |-> << >>]
Pending == [tag |-> "pending", sevs |-> << >>]
NotCalled == [tag |-> "none", sevs |-> << >>]
ValidateOutcomes == {Throws, NonArray} \cup [tag : {"array"}, sevs : FindingLists]

VARIABLES
    rules,            \* this.rules: the Map, as its entries in insertion order
    ret,              \* what the last registry call returned ("warn": it logged a warning)
    lastReg,          \* history: per id, the rule last registered and not unregistered since
    pc,               \* position of the pass in flight
    kind,             \* "execute" or "executeSpecific"
    options,          \* the options of the pass
    enabledRules,     \* execute: enabledRules; executeSpecific: rules (the sorted request)
    applicableRules,  \* execute: applicableRules
    idx,              \* index of the rule whose validate is awaited
    settled,          \* parallel mode: the outcome of each promise, Pending until it settles
    errors,
    warnings,
    executedRules,
    skippedRules,
    answers,          \* the context: what appliesTo(context) does, per rule id
    applied,          \* history: what appliesTo answered, per id ("none": not called)
    returned,         \* history: what validate settled to, per id
    invoked,          \* history: the rules whose validate was called, in call order
    halt              \* history: which break ended the loop ("none", "stop", "timeout")

regVars == <<rules, ret, lastReg>>
passVars == <<pc, kind, options, enabledRules, applicableRules, idx, settled,
              errors, warnings, executedRules, skippedRules,
              answers, applied, returned, invoked, halt>>
engineVars == <<rules, ret, lastReg, pc, kind, options, enabledRules, applicableRules,
                idx, settled, errors, warnings, executedRules, skippedRules,
                answers, applied, returned, invoked, halt>>

\* validateXML (xml-validator.ts): one call, cut at its await points.
VARIABLES
    xpc,              \* position of the call: "idle", "engine", "xsd", "returned"
    xoptions,         \* options.xsdValidation.enabled !== false
    xguiaType,        \* guiaType, what detectGuiaType returned
    xparsed,          \* parsedXml is not null
    xerrors,          \* errors, as the findings' records
    xwarnings,        \* warnings
    xstatus           \* status of the ValidationResult returned

xmlVars == <<xpc, xoptions, xguiaType, xparsed, xerrors, xwarnings, xstatus>>

\* Most callers of initializeProcedures that are in flight at once.
MaxCallers == 3
Callers == 1..MaxCallers

\* TussTablesService (tuss-tables.service.ts): the statics of Tabela 22 and
\* the calls of initializeProcedures in flight, cut at their await points.
VARIABLES
    proceduresTable,    \* "null", "table", or "malformed" (truthy, without .procedures)
    proceduresLoading,  \* the promise: "null", "pending", "fulfilled", "rejected"
    proceduresError,    \* "null" or "error"
    loader,             \* the async function behind the promise: "none", "fetch", "json", "over"
    callers,            \* per caller: "idle", "await", "returned", "threw"
    waitsOn,            \* history: per caller, the number of the promise it awaits (0: none)
    fetches,            \* history: fetch calls issued
    promises,           \* history: promises stored in proceduresLoading
    stores              \* history: assignments to proceduresTable

svcVars == <<proceduresTable, proceduresLoading, proceduresError, loader, callers,
             waitsOn, fetches, promises, stores>>

\* Two execute calls in flight at once on one engine (processFiles maps its
\* uploads to validateXML calls under Promise.all): the registry and, per
\* call, the locals of execute.
VARIABLES
    engine,           \* this.rules of the shared engine
    pass              \* per call: position, arguments, locals, and as history what
                      \* it observed and whether it resumed while another call waited

conVars == <<engine, pass>>

\* The rules' functions over a parsed document (extractFieldValues and the
\* validate of rules that only read the document): an argument and a value.
VARIABLES
    tree,             \* context.parsedXml
    field,            \* fieldName
    called,           \* the function applied: "none" before the call
    result            \* what it returned

docVars == <<tree, field, called, result>>

\* The global engine on a classified document (rule-registry.ts, validateXML)
VARIABLES
    globalRuleEngine, \* the rules of the global engine, in Map order
    scn               \* the locals of its execute(context) call

scnVars == <<globalRuleEngine, scn>>

\* detectGuiaType (xml-validator.ts)
VARIABLES
    xmlContent,       \* the text it is given
    detected          \* what it returned, "none" before the call

detVars == <<xmlContent, detected>>

\* The variables of the other components, which the engine does not touch.
auxVars == <<xmlVars, svcVars, conVars, docVars, scnVars, detVars>>
notXml == <<engineVars, svcVars, conVars, docVars, scnVars, detVars>>
notSvc == <<engineVars, xmlVars, conVars, docVars, scnVars, detVars>>
notCon == <<engineVars, xmlVars, svcVars, docVars, scnVars, detVars>>
notDoc == <<engineVars, xmlVars, svcVars, conVars, scnVars, detVars>>
notScn == <<engineVars, xmlVars, svcVars, conVars, docVars, detVars>>
notDet == <<engineVars, xmlVars, svcVars, conVars, docVars, scnVars>>
vars == <<engineVars, auxVars>>

Null == [k |-> "null", v |-> << >>]

DocIdle ==
    /\ tree = Null
    /\ field = << >>
    /\ called = "none"
    /\ result = << >>

Passes == {1, 2}

\* The locals of a call of execute that has not been made.
NoPass ==
    [pc |-> "idle", options |-> NoOptions, answers |-> [id \in Ids |-> "true"],
     registry |-> << >>, applicableRules |-> << >>, idx |-> 0, settled |-> << >>,
     errors |-> << >>, warnings |-> << >>, executedRules |-> << >>,
     skippedRules |-> << >>,
     returned |-> [id \in Ids |-> NotCalled], expired |-> [id \in Ids |-> FALSE],
     met |-> FALSE, ran |-> << >>]

ConIdle ==
    /\ engine = << >>
    /\ pass = [p \in Passes |-> NoPass]

\* The statics as declared, no call made.
SvcIdle ==
    /\ proceduresTable = "null"
    /\ proceduresLoading = "null"
    /\ proceduresError = "null"
    /\ loader = "none"
    /\ callers = [c \in Callers |-> "idle"]
    /\ waitsOn = [c \in Callers |-> 0]
    /\ fetches = 0
    /\ promises = 0
    /\ stores = 0

\* No validateXML call in flight.
XmlIdle ==
    /\ xpc = "idle"
    /\ xoptions = [xsdEnabled |-> TRUE]
    /\ xguiaType = "unknown"
    /\ xparsed = FALSE
    /\ xerrors = << >>
    /\ xwarnings = << >>
    /\ xstatus = "pending"

\* The global engine as constructed, before the module registers its rules.
NoScn ==
    [pc |-> "idle", guiaType |-> "unknown", applicableRules |-> << >>, idx |-> 0,
     errors |-> << >>, warnings |-> << >>, executedRules |-> << >>,
     skippedRules |-> << >>, reports |-> 0]

ScnIdle ==
    /\ globalRuleEngine = << >>
    /\ scn = NoScn

DetIdle ==
    /\ xmlContent = << >>
    /\ detected = "none"

AuxIdle == XmlIdle /\ SvcIdle /\ ConIdle /\ DocIdle /\ ScnIdle /\ DetIdle

NoRule == [id |-> "none", priority |-> 0]
Ident(rule) == [id |-> rule.id, priority |-> rule.priority]

----------------------------------------------------------------------------
\* Sequence helpers

RECURSIVE IndexOf(_, _, _)
IndexOf(seq, id, i) ==
    IF i > Len(seq) THEN 0
    ELSE IF seq[i].id = id THEN i ELSE IndexOf(seq, id, i + 1)

RemoveAt(seq, i) == [k \in 1..(Len(seq) - 1) |-> IF k < i THEN seq[k] ELSE seq[k + 1]]

RECURSIVE Concat(_)
Concat(seqs) == IF seqs = << >> THEN << >> ELSE Head(seqs) \o Concat(Tail(seqs))

Range(seq) == {seq[i] : i \in 1..Len(seq)}

----------------------------------------------------------------------------
\* Registry

\* Map.has / Map.get
HasRule(rs, id) == IndexOf(rs, id, 1) # 0
GetRule(rs, id) == IF HasRule(rs, id) THEN rs[IndexOf(rs, id, 1)] ELSE NoRule

MapSetKeepsFirst(rs, rule) == IF HasRule(rs, rule.id) THEN rs ELSE Append(rs, rule)

\* Map.set: an existing key keeps its place in the iteration order.
MapSet(rs, rule) ==
    IF HasRule(rs, rule.id)
    THEN [rs EXCEPT ![IndexOf(rs, rule.id, 1)] = rule]
    ELSE Append(rs, rule)

\* Map.delete
MapDelete(rs, id) == IF HasRule(rs, id) THEN RemoveAt(rs, IndexOf(rs, id, 1)) ELSE rs

\* Array.prototype.sort((a, b) => a.priority - b.priority): stable.
RECURSIVE InsertByPriority(_, _)
InsertByPriority(sorted, rule) ==
    IF sorted = << >> THEN <<rule>>
    ELSE IF sorted[Len(sorted)].priority <= rule.priority THEN Append(sorted, rule)
    ELSE Append(InsertByPriority(SubSeq(sorted, 1, Len(sorted) - 1), rule),
                sorted[Len(sorted)])

RECURSIVE SortByPriority(_)
SortByPriority(seq) ==
    IF seq = << >> THEN << >>
    ELSE InsertByPriority(SortByPriority(SubSeq(seq, 1, Len(seq) - 1)), seq[Len(seq)])

GetAllRulesUnsorted(rs) == rs

\* getAllRules: the values of the Map, sorted by priority.
GetAllRules(rs) == SortByPriority(rs)

IsEnabledAlways(rule) == TRUE

\* execute: getAllRules().filter(rule => rule.enabled)
IsEnabled(rule) == rule.enabled

\* getStats: total, enabled and disabled counts of the registered rules.
GetStats(rs) ==
    [total |-> Len(rs),
     enabled |-> Len(SelectSeq(rs, LAMBDA r : r.enabled)),
     disabled |-> Len(SelectSeq(rs, LAMBDA r : ~r.enabled))]

----------------------------------------------------------------------------
\* Engine helpers

\* The ValidationError objects a rule returns: one per severity listed.
FindingsOf(rule, out) ==
    [k \in 1..Len(out.sevs) |-> [rule |-> rule.id, n |-> k, severity |-> out.sevs[k]]]

ExecuteRuleFirstOnly(rule, out) ==
    IF out.tag = "array" THEN SubSeq(FindingsOf(rule, out), 1, 1) ELSE << >>

\* executeRule: the awaited result if it is an array, else [].
ExecuteRule(rule, out) == IF out.tag = "array" THEN FindingsOf(rule, out) ELSE << >>

RECURSIVE CategorizeOnlyWarnings(_, _, _)
CategorizeOnlyWarnings(ruleErrors, errs, warns) ==
    IF ruleErrors = << >> THEN [errors |-> errs, warnings |-> warns]
    ELSE IF Head(ruleErrors).severity # "warning"
         THEN CategorizeOnlyWarnings(Tail(ruleErrors), Append(errs, Head(ruleErrors)), warns)
         ELSE CategorizeOnlyWarnings(Tail(ruleErrors), errs, Append(warns, Head(ruleErrors)))

\* categorizeErrors: push each finding, in order, to errors or to warnings.
RECURSIVE CategorizeErrors(_, _, _)
CategorizeErrors(ruleErrors, errs, warns) ==
    IF ruleErrors = << >> THEN [errors |-> errs, warnings |-> warns]
    ELSE IF Head(ruleErrors).severity = "error"
         THEN CategorizeErrors(Tail(ruleErrors), Append(errs, Head(ruleErrors)), warns)
         ELSE CategorizeErrors(Tail(ruleErrors), errs, Append(warns, Head(ruleErrors)))

ApplicabilityCheckedForgets(rule, answer, acc) ==
    IF answer = "true" THEN [acc EXCEPT !.applicable = Append(@, rule)] ELSE acc

\* execute, the applicability loop: a rule that applies is kept, one that
\* does not is skipped.
ApplicabilityChecked(rule, answer, acc) ==
    IF answer = "true"
    THEN [acc EXCEPT !.applicable = Append(@, rule)]
    ELSE [acc EXCEPT !.skipped = Append(@, rule.id)]

ApplicabilityCaughtKeeps(rule, acc) ==
    [acc EXCEPT !.skipped = Append(@, rule.id), !.applicable = Append(@, rule)]

ApplicabilityCaughtForgets(rule, acc) == acc

\* execute, the catch of the applicability loop: the rule is skipped.
ApplicabilityCaught(rule, acc) == [acc EXCEPT !.skipped = Append(@, rule.id)]

RECURSIVE FilterApplicable(_, _)
FilterApplicable(enabled, ap) ==
    IF enabled = << >> THEN [applicable |-> << >>, skipped |-> << >>]
    ELSE LET n == Len(enabled)
             acc == FilterApplicable(SubSeq(enabled, 1, n - 1), ap)
         IN  IF ap[enabled[n].id] = "throw"
             THEN ApplicabilityCaught(enabled[n], acc)
             ELSE ApplicabilityChecked(enabled[n], ap[enabled[n].id], acc)

ValidateCaughtForgets(rule, skipped) == skipped

\* The catch around executeRule (sequential loops) and the rejected branch
\* of the parallel forEach: the rule is skipped.
ValidateCaught(rule, skipped) == Append(skipped, rule.id)

StopCheckNever(opts, errs) == FALSE

\* if (options.stopOnFirstError && errors.length > 0) break;
StopCheck(opts, errs) == opts.stopOnFirstError /\ Len(errs) > 0

\* if (options.timeoutMs && (performance.now() - startTime) > options.timeoutMs) break;
TimeoutCheck(opts, expired) == opts.timeoutMs # 0 /\ expired

RECURSIVE ParallelCollectFailFast(_, _, _)
ParallelCollectFailFast(applicable, results, skipped0) ==
    IF applicable = << >>
    THEN [errors |-> << >>, warnings |-> << >>, executed |-> << >>, skipped |-> skipped0]
    ELSE LET n == Len(applicable)
             acc == ParallelCollectFailFast(SubSeq(applicable, 1, n - 1),
                                            SubSeq(results, 1, n - 1), skipped0)
             rule == applicable[n]
         IN  IF \E j \in 1..(n - 1) : results[j].tag = "throw" THEN acc
             ELSE IF results[n].tag # "throw"
             THEN LET cat == CategorizeErrors(ExecuteRule(rule, results[n]),
                                              acc.errors, acc.warnings)
                  IN  [errors |-> cat.errors, warnings |-> cat.warnings,
                       executed |-> Append(acc.executed, rule.id),
                       skipped |-> acc.skipped]
             ELSE [acc EXCEPT !.skipped = Append(@, rule.id)]

\* execute, parallel mode: results.forEach over the settled promises.
RECURSIVE ParallelCollect(_, _, _)
ParallelCollect(applicable, results, skipped0) ==
    IF applicable = << >>
    THEN [errors |-> << >>, warnings |-> << >>, executed |-> << >>, skipped |-> skipped0]
    ELSE LET n == Len(applicable)
             acc == ParallelCollect(SubSeq(applicable, 1, n - 1),
                                    SubSeq(results, 1, n - 1), skipped0)
             rule == applicable[n]
         IN  IF results[n].tag # "throw"
             THEN LET cat == CategorizeErrors(ExecuteRule(rule, results[n]),
                                              acc.errors, acc.warnings)
                  IN  [errors |-> cat.errors, warnings |-> cat.warnings,
                       executed |-> Append(acc.executed, rule.id),
                       skipped |-> acc.skipped]
             ELSE [acc EXCEPT !.skipped = ValidateCaught(rule, @)]

\* executeSpecific: ruleIds.map(get).filter(defined and enabled).sort(priority)
RequestedRules(rs, ruleIds) ==
    SortByPriority(
        SelectSeq([k \in 1..Len(ruleIds) |-> GetRule(rs, ruleIds[k])],
                  LAMBDA r : r.id # "none" /\ r.enabled))

\* executeSpecific, the head of the loop from position k on: appliesTo is
\* called with no try around it, so its throw rejects the whole call.
RECURSIVE SpecificScan(_, _, _, _)
SpecificScan(list, k, ap, skipped) ==
    IF k > Len(list) THEN [status |-> "done", at |-> k, skipped |-> skipped]
    ELSE IF ap[list[k].id] = "throw"
         THEN [status |-> "rejected", at |-> k, skipped |-> skipped]
    ELSE IF ap[list[k].id] = "false"
         THEN SpecificScan(list, k + 1, ap, Append(skipped, list[k].id))
    ELSE [status |-> "await", at |-> k, skipped |-> skipped]

----------------------------------------------------------------------------
\* State after `new RuleEngine()`, no pass in flight

NoneApplied == [id \in Ids |-> "none"]
NoAnswers == [id \in Ids |-> "true"]
NoneReturned == [id \in Ids |-> NotCalled]

PassIdle ==
    /\ pc = "idle"
    /\ kind = "none"
    /\ options = NoOptions
    /\ enabledRules = << >>
    /\ applicableRules = << >>
    /\ idx = 0
    /\ settled = << >>
    /\ errors = << >>
    /\ warnings = << >>
    /\ executedRules = << >>
    /\ skippedRules = << >>
    /\ answers = NoAnswers
    /\ applied = NoneApplied
    /\ returned = NoneReturned
    /\ invoked = << >>
    /\ halt = "none"

EngineInit ==
    /\ rules = << >>
    /\ ret = "none"
    /\ lastReg = [id \in Ids |-> NoRule]
    /\ PassIdle

Init == EngineInit /\ AuxIdle

----------------------------------------------------------------------------
\* Registry operations

\* register(rule): returns nothing; warns on the console when the id is taken
Register(rule) ==
    /\ pc = "idle"
    /\ rules' = MapSet(rules, rule)
    /\ ret' = IF HasRule(rules, rule.id) THEN "warn" ELSE "none"
    /\ lastReg' = [lastReg EXCEPT ![rule.id] = Ident(rule)]
    /\ UNCHANGED passVars
    /\ UNCHANGED auxVars

\* unregister(ruleId): returns what Map.delete returns
Unregister(ruleId) ==
    /\ pc = "idle"
    /\ rules' = MapDelete(rules, ruleId)
    /\ ret' = IF HasRule(rules, ruleId) THEN "true" ELSE "false"
    /\ lastReg' = [lastReg EXCEPT ![ruleId] = NoRule]
    /\ UNCHANGED passVars
    /\ UNCHANGED auxVars

\* setRuleEnabled(ruleId, enabled): nothing happens for an unknown id
SetRuleEnabled(ruleId, enabled) ==
    /\ pc = "idle"
    /\ rules' = IF HasRule(rules, ruleId)
                THEN [rules EXCEPT ![IndexOf(rules, ruleId, 1)].enabled = enabled]
                ELSE rules
    /\ ret' = "none"
    /\ UNCHANGED lastReg
    /\ UNCHANGED passVars
    /\ UNCHANGED auxVars

----------------------------------------------------------------------------
\* execute(context, options)

\* A context is drawn once: the answer of a rule that the pass cannot ask
\* (not among ids, not registered or not enabled) is left at "true".
OnlyAsked(ap, ids) ==
    \A id \in Ids :
       ~(id \in ids /\ HasRule(rules, id) /\ GetRule(rules, id).enabled) => ap[id] = "true"

\* The call itself, up to its first await: the enabled rules in priority
\* order, the applicability loop, and then either every validate call
\* (parallel) or the first one (sequential).
StartExecute(opts, ap) ==
    /\ pc = "idle"
    /\ OnlyAsked(ap, Ids)
    /\ answers' = ap
    /\ LET enabled == SelectSeq(GetAllRules(rules), IsEnabled)
           f == FilterApplicable(enabled, ap)
       IN  /\ kind' = "execute"
           /\ options' = opts
           /\ enabledRules' = enabled
           /\ applicableRules' = f.applicable
           /\ skippedRules' = f.skipped
           /\ applied' = [id \in Ids |->
                            IF HasRule(enabled, id) THEN ap[id] ELSE "none"]
           /\ IF opts.parallel
              THEN /\ pc' = "par"
                   /\ settled' = [k \in 1..Len(f.applicable) |-> Pending]
                   /\ invoked' = f.applicable
                   /\ idx' = 0
              ELSE IF f.applicable = << >>
              THEN /\ pc' = "done"
                   /\ UNCHANGED <<settled, invoked, idx>>
              ELSE /\ pc' = "seq"
                   /\ invoked' = <<f.applicable[1]>>
                   /\ idx' = 1
                   /\ UNCHANGED settled
    /\ ret' = "none"
    /\ UNCHANGED <<rules, lastReg, errors, warnings, executedRules, returned, halt>>
    /\ UNCHANGED auxVars

SeqResumeNoAwait(out, expired) ==
    /\ pc = "seq"
    /\ idx < Len(applicableRules)
    /\ idx' = idx + 1
    /\ invoked' = Append(invoked, applicableRules[idx + 1])
    /\ UNCHANGED <<regVars, pc, kind, options, enabledRules, applicableRules, settled,
                   errors, warnings, executedRules, skippedRules, answers, applied,
                   returned, halt>>
    /\ UNCHANGED auxVars

\* Sequential mode: the awaited executeRule(applicableRules[idx]) settles;
\* the rest of the loop body runs, and the loop either ends or calls the
\* next rule's validate.
SeqResume(out, expired) ==
    /\ pc = "seq"
    /\ LET rule == applicableRules[idx]
           cat == CategorizeErrors(ExecuteRule(rule, out), errors, warnings)
           brk == IF out.tag = "throw" THEN "none"
                  ELSE IF StopCheck(options, cat.errors) THEN "stop"
                  ELSE IF TimeoutCheck(options, expired) THEN "timeout"
                  ELSE "none"
       IN  /\ returned' = [returned EXCEPT ![rule.id] = out]
           /\ IF out.tag = "throw"
              THEN /\ skippedRules' = ValidateCaught(rule, skippedRules)
                   /\ UNCHANGED <<errors, warnings, executedRules>>
              ELSE /\ executedRules' = Append(executedRules, rule.id)
                   /\ errors' = cat.errors
                   /\ warnings' = cat.warnings
                   /\ UNCHANGED skippedRules
           /\ halt' = brk
           /\ IF brk = "none" /\ idx < Len(applicableRules)
              THEN /\ idx' = idx + 1
                   /\ invoked' = Append(invoked, applicableRules[idx + 1])
                   /\ pc' = "seq"
              ELSE /\ pc' = "done"
                   /\ UNCHANGED <<idx, invoked>>
    /\ UNCHANGED <<regVars, kind, options, enabledRules, applicableRules, settled,
                   answers, applied>>
    /\ UNCHANGED auxVars

\* Parallel mode: one of the promises handed to Promise.allSettled settles.
ParSettle(k, out) ==
    /\ pc = "par"
    /\ k \in 1..Len(settled)
    /\ settled[k] = Pending
    /\ settled' = [settled EXCEPT ![k] = out]
    /\ returned' = [returned EXCEPT ![applicableRules[k].id] = out]
    /\ UNCHANGED <<regVars, pc, kind, options, enabledRules, applicableRules, idx,
                   errors, warnings, executedRules, skippedRules, answers, applied,
                   invoked, halt>>
    /\ UNCHANGED auxVars

\* Parallel mode: all have settled; results.forEach collects them.
ParAggregate ==
    /\ pc = "par"
    /\ \A k \in 1..Len(settled) : settled[k] # Pending
    /\ LET c == ParallelCollect(applicableRules, settled, skippedRules)
       IN  /\ errors' = c.errors
           /\ warnings' = c.warnings
           /\ executedRules' = c.executed
           /\ skippedRules' = c.skipped
    /\ pc' = "done"
    /\ UNCHANGED <<regVars, kind, options, enabledRules, applicableRules, idx, settled,
                   answers, applied, returned, invoked, halt>>
    /\ UNCHANGED auxVars

----------------------------------------------------------------------------
\* executeSpecific(context, ruleIds, options)

\* The loop of executeSpecific from position k on, up to the next await,
\* the end of the loop (or its break), or the throw of an appliesTo.
SpecificFrom(list, k, ap, cont, skipped0) ==
    LET s == IF cont THEN SpecificScan(list, k, ap, skipped0)
             ELSE [status |-> "done", at |-> k - 1, skipped |-> skipped0]
    IN  /\ skippedRules' = s.skipped
        /\ applied' = [id \in Ids |->
                         IF \E j \in k..s.at : j <= Len(list) /\ list[j].id = id
                         THEN ap[id] ELSE applied[id]]
        /\ pc' = IF s.status = "await" THEN "specific" ELSE s.status
        /\ idx' = IF s.status = "await" THEN s.at ELSE idx
        /\ invoked' = IF s.status = "await" THEN Append(invoked, list[s.at]) ELSE invoked

\* The call itself, up to its first await.  Of the options only
\* stopOnFirstError is read.
StartSpecific(ruleIds, opts, ap) ==
    /\ pc = "idle"
    /\ OnlyAsked(ap, Range(ruleIds))
    /\ answers' = ap
    /\ LET list == RequestedRules(rules, ruleIds)
       IN  /\ kind' = "executeSpecific"
           /\ options' = opts
           /\ enabledRules' = list
           /\ SpecificFrom(list, 1, ap, TRUE, << >>)
    /\ ret' = "none"
    /\ UNCHANGED <<rules, lastReg, applicableRules, settled, errors, warnings,
                   executedRules, returned, halt>>
    /\ UNCHANGED auxVars

\* The awaited executeRule(rules[idx]) settles; the rest of the loop body
\* runs and the loop goes on to the next rule.
SpecificResume(out) ==
    /\ pc = "specific"
    /\ LET rule == enabledRules[idx]
           cat == CategorizeErrors(ExecuteRule(rule, out), errors, warnings)
           stop == out.tag # "throw" /\ StopCheck(options, cat.errors)
       IN  /\ returned[rule.id] \in {NotCalled, out}
           /\ returned' = [returned EXCEPT ![rule.id] = out]
           /\ IF out.tag = "throw"
              THEN UNCHANGED <<errors, warnings, executedRules>>
              ELSE /\ executedRules' = Append(executedRules, rule.id)
                   /\ errors' = cat.errors
                   /\ warnings' = cat.warnings
           /\ halt' = IF stop THEN "stop" ELSE "none"
           /\ SpecificFrom(enabledRules, idx + 1, answers, ~stop,
                           IF out.tag = "throw" THEN ValidateCaught(rule, skippedRules)
                           ELSE skippedRules)
    /\ UNCHANGED <<regVars, kind, options, enabledRules, applicableRules, settled, answers>>
    /\ UNCHANGED auxVars

----------------------------------------------------------------------------
\* The caller takes the result (or the rejection); the engine holds no
\* state of a finished pass.
Return ==
    /\ pc \in {"done", "rejected"}
    /\ pc' = "idle"
    /\ kind' = "none"
    /\ options' = NoOptions
    /\ enabledRules' = << >>
    /\ applicableRules' = << >>
    /\ idx' = 0
    /\ settled' = << >>
    /\ errors' = << >>
    /\ warnings' = << >>
    /\ executedRules' = << >>
    /\ skippedRules' = << >>
    /\ answers' = NoAnswers
    /\ applied' = NoneApplied
    /\ returned' = NoneReturned
    /\ invoked' = << >>
    /\ halt' = "none"
    /\ UNCHANGED regVars
    /\ UNCHANGED auxVars

RuleIdLists == UNION {[1..n -> Ids] : n \in 0..MaxRuleIds}
SpecificOptionSets == {o \in OptionSets : o.timeoutMs = 0 /\ ~o.parallel}
Answers == [Ids -> AppliesOutcomes]

Next ==
    \/ \E rule \in RuleObjs : Register(rule)
    \/ \E id \in Ids : Unregister(id)
    \/ \E id \in Ids, en \in BOOLEAN : SetRuleEnabled(id, en)
    \/ \E opts \in OptionSets, ap \in Answers : StartExecute(opts, ap)
    \/ \E out \in ValidateOutcomes, expired \in BOOLEAN : SeqResume(out, expired)
    \/ \E k \in 1..Cardinality(Ids), out \in ValidateOutcomes : ParSettle(k, out)
    \/ ParAggregate
    \/ \E ids \in RuleIdLists, opts \in SpecificOptionSets, ap \in Answers :
          StartSpecific(ids, opts, ap)
    \/ \E out \in ValidateOutcomes : SpecificResume(out)
    \/ Return

Spec == Init /\ [][Next]_vars

----------------------------------------------------------------------------
\* Vocabulary of the properties

ExecuteDone == kind = "execute" /\ pc = "done"
Sequential == kind = "execute" /\ ~options.parallel
Finished == pc = "done"

\* The findings in the result, and those a rule handed back to the engine.
ResultFindings == Range(errors) \cup Range(warnings)
ReturnedBy(rule) ==
    IF returned[rule.id].tag = "array" THEN FindingsOf(rule, returned[rule.id]) ELSE << >>
Settled(rule) == returned[rule.id].tag \in {"array", "nonarray"}
Threw(rule) == returned[rule.id] = Throws
WasInvoked(rule) == \E i \in 1..Len(invoked) : invoked[i] = rule
InList(list, id) == \E i \in 1..Len(list) : list[i] = id
PositionIn(list, x) == CHOOSE i \in 1..Len(list) : list[i] = x

\* What the fault of one rule's validate leaves behind, whatever else happens.
FaultAbsorbed(rule) ==
    /\ InList(skippedRules, rule.id)
    /\ ~InList(executedRules, rule.id)
    /\ \A f \in ResultFindings : f.rule # rule.id
    /\ \A other \in Range(applicableRules) :
          (other # rule /\ Settled(other)) => Range(ReturnedBy(other)) \subseteq ResultFindings

AllOthersInvoked(rule) ==
    \A other \in Range(applicableRules) :
       other # rule => (WasInvoked(other) /\ Range(ReturnedBy(other)) \subseteq ResultFindings)

\* C1 as stated: in execute (either mode), when an applicable rule's validate
\* throws or rejects, every other applicable rule is still invoked with its
\* findings in the result, the faulty rule is in skippedRules and not in
\* executedRules, execute does not reject, and the fault adds no finding.
C1_AsStated ==
    (kind = "execute") =>
       /\ pc # "rejected"
       /\ pc = "done" =>
             \A rule \in Range(applicableRules) :
                Threw(rule) => (FaultAbsorbed(rule) /\ AllOthersInvoked(rule))

\* C1 (amended): as C1, with "every other applicable rule is still invoked"
\* claimed only when the sequential loop was not ended by the
\* stopOnFirstError or timeout break; the rules that did settle have their
\* findings in the result whatever ended the loop.
C1_FaultIsolation ==
    (kind = "execute") =>
       /\ pc # "rejected"
       /\ pc = "done" =>
             \A rule \in Range(applicableRules) :
                Threw(rule) =>
                   /\ FaultAbsorbed(rule)
                   /\ halt = "none" => AllOthersInvoked(rule)

\* A sequential pass has ended in which a rule threw and a rule after it
\* returned findings.
C1_Witness ==
    /\ ExecuteDone
    /\ ~options.parallel
    /\ \E i, j \in 1..Len(applicableRules) :
          /\ i < j
          /\ Threw(applicableRules[i])
          /\ returned[applicableRules[j].id].tag = "array"
          /\ InList(executedRules, applicableRules[j].id)

\* C2: in sequential execute, of two invoked rules the one with the lower
\* priority number has its validate invoked strictly first, whatever the
\* order of registration.
C2_PriorityOrder ==
    Sequential =>
       \A i, j \in 1..Len(invoked) :
          invoked[i].priority < invoked[j].priority => i < j

\* Two rules were invoked in a sequential pass, the one registered later
\* (later in the Map) before the one registered earlier.
C2_Witness ==
    /\ Sequential
    /\ \E i, j \in 1..Len(invoked) :
          /\ i < j
          /\ invoked[i].priority < invoked[j].priority
          /\ IndexOf(rules, invoked[i].id, 1) > IndexOf(rules, invoked[j].id, 1)

\* C3: in every result of execute and executeSpecific, errors holds only
\* severity "error", warnings only "warning" or "info"; a finding returned by
\* an executed rule is in errors iff its severity is "error", otherwise in
\* warnings, never in both.
C3_Bucketing ==
    Finished =>
       /\ \A f \in Range(errors) : f.severity = "error"
       /\ \A f \in Range(warnings) : f.severity \in {"warning", "info"}
       /\ \A rule \in Range(enabledRules) :
             InList(executedRules, rule.id) =>
                \A f \in Range(ReturnedBy(rule)) :
                   /\ (f \in Range(errors)) <=> (f.severity = "error")
                   /\ (f \in Range(warnings)) <=> (f.severity # "error")

\* A result holds an error, a warning and an info finding.
C3_Witness ==
    /\ Finished
    /\ errors # << >>
    /\ \E f \in Range(warnings) : f.severity = "warning"
    /\ \E f \in Range(warnings) : f.severity = "info"

\* C4 as stated: in execute and executeSpecific, an enabled rule whose
\* appliesTo(context) returns false never has validate invoked, contributes
\* no finding, is not in executedRules and is in skippedRules.
C4_ApplicabilityExclusion ==
    Finished =>
       \A rule \in Range(enabledRules) :
          answers[rule.id] = "false" =>
             /\ ~WasInvoked(rule)
             /\ \A f \in ResultFindings : f.rule # rule.id
             /\ ~InList(executedRules, rule.id)
             /\ InList(skippedRules, rule.id)

IdentOf(rule) == IF rule.id = "none" THEN NoRule ELSE Ident(rule)

C5_State ==
    /\ \A id \in Ids : Cardinality({i \in 1..Len(rules) : rules[i].id = id}) <= 1
    /\ \A id \in Ids : IdentOf(GetRule(rules, id)) = lastReg[id]
    /\ \A i \in 1..Len(invoked) : lastReg[invoked[i].id] = Ident(invoked[i])

C5_Step ==
    /\ \A rule \in RuleObjs :
          (Register(rule) /\ HasRule(rules, rule.id)) => Len(rules') = Len(rules)
    /\ \A id \in Ids :
          Unregister(id) => ((ret' = "true") <=> HasRule(rules, id))

C6_StopOnFirstError ==
    (Sequential /\ options.stopOnFirstError) =>
       /\ errors # << >> =>
             /\ pc = "done"
             /\ halt = "stop"
             /\ LET h == applicableRules[idx]
                IN  /\ invoked[Len(invoked)] = h
                    /\ \A f \in Range(errors) : f.rule = h.id
                    /\ \A i \in 1..Len(invoked) : invoked[i].priority <= h.priority
                    /\ Range(ReturnedBy(h)) \subseteq ResultFindings
                    /\ \A j \in (idx + 1)..Len(applicableRules) :
                          /\ ~WasInvoked(applicableRules[j])
                          /\ ~InList(executedRules, applicableRules[j].id)
                          /\ ~InList(skippedRules, applicableRules[j].id)
       /\ halt = "stop" => errors # << >>
       /\ (pc = "done" /\ errors = << >> /\ halt # "timeout") =>
             Len(invoked) = Len(applicableRules)

\* A pass with stopOnFirstError ran a rule that returned only warnings, then
\* stopped at a rule that returned an error, before the last applicable rule.
C6_Witness ==
    /\ Sequential
    /\ options.stopOnFirstError
    /\ pc = "done"
    /\ halt = "stop"
    /\ 1 < idx
    /\ idx < Len(applicableRules)
    /\ \E f \in Range(warnings) : f.rule # applicableRules[idx].id

NotReached(rule) ==
    /\ halt # "none"
    /\ \E j \in (idx + 1)..Len(applicableRules) : applicableRules[j] = rule

Listed(rule) == InList(executedRules, rule.id) \/ InList(skippedRules, rule.id)

\* C7 as stated: after every execute call, every rule that was enabled when
\* the pass started is in executedRules or in skippedRules.
C7_AsStated ==
    ExecuteDone => \A rule \in Range(enabledRules) : Listed(rule)

\* C7 (amended): after every execute call, a rule that was enabled when the
\* pass started is in executedRules or skippedRules exactly when it is not
\* one of the applicable rules that follow the rule at which the
\* stopOnFirstError or timeout break ended a sequential pass.
C7_Coverage ==
    ExecuteDone => \A rule \in Range(enabledRules) : Listed(rule) <=> ~NotReached(rule)

\* A pass ended early, leaving a rule unreached, with another rule skipped
\* as inapplicable.
C7_Witness ==
    /\ ExecuteDone
    /\ halt # "none"
    /\ idx < Len(applicableRules)
    /\ skippedRules # << >>

ExecutedRule(k) == GetRule(enabledRules, executedRules[k])
IsError(f) == f.severity = "error"
IsNoError(f) == f.severity # "error"
Occurrences(seq, x) == Cardinality({i \in 1..Len(seq) : seq[i] = x})

\* C8: for every rule in executedRules, each finding it returned is exactly
\* once in errors or warnings, in priority order of the rules and in the
\* order returned; the result holds no other finding.  It is stated for the
\* results of execute and of executeSpecific; executeSpecific runs a rule
\* once for every time its id was requested, and then each run's findings
\* are there once.
C8_FindingsInFull ==
    Finished =>
       /\ errors = Concat([k \in 1..Len(executedRules) |->
                             SelectSeq(ReturnedBy(ExecutedRule(k)), IsError)])
       /\ warnings = Concat([k \in 1..Len(executedRules) |->
                               SelectSeq(ReturnedBy(ExecutedRule(k)), IsNoError)])
       /\ \A i, j \in 1..Len(executedRules) :
             i < j => ExecutedRule(i).priority <= ExecutedRule(j).priority
       /\ \A k \in 1..Len(executedRules) :
             /\ ExecuteDone => Occurrences(executedRules, executedRules[k]) = 1
             /\ \A f \in Range(ReturnedBy(ExecutedRule(k))) :
                   Occurrences(errors \o warnings, f)
                      = Occurrences(executedRules, executedRules[k])
       /\ \A f \in ResultFindings :
             /\ InList(executedRules, f.rule)
             /\ f \in Range(ReturnedBy(GetRule(enabledRules, f.rule)))

\* A result holds the findings of two executed rules, errors and warnings.
C8_Witness ==
    /\ ExecuteDone
    /\ \E f, g \in Range(errors) : f.rule # g.rule
    /\ \E f, g \in Range(warnings) : f.rule # g.rule

OthersEvaluatedAndRun(rule) ==
    \A other \in Range(enabledRules) :
       other # rule =>
          /\ applied[other.id] # "none"
          /\ answers[other.id] = "true" => WasInvoked(other)

FaultyApplicabilityContained(rule) ==
    /\ InList(skippedRules, rule.id)
    /\ ~WasInvoked(rule)
    /\ \A other \in Range(enabledRules) : applied[other.id] = answers[other.id]

\* C9 as stated: in execute, when an enabled rule's appliesTo throws, the
\* rule is in skippedRules, its validate is not invoked, execute does not
\* reject, and every other enabled rule is still evaluated and (if it
\* applies) run.
C9_AsStated ==
    (kind = "execute") =>
       /\ pc # "rejected"
       /\ pc = "done" =>
             \A rule \in Range(enabledRules) :
                answers[rule.id] = "throw" =>
                   (FaultyApplicabilityContained(rule) /\ OthersEvaluatedAndRun(rule))

\* C9 (amended): as C9, every other enabled rule is still evaluated, and
\* those that apply are run unless the stopOnFirstError or timeout break
\* ended the sequential loop first.
C9_ApplicabilityFault ==
    (kind = "execute") =>
       /\ pc # "rejected"
       /\ pc = "done" =>
             \A rule \in Range(enabledRules) :
                answers[rule.id] = "throw" =>
                   /\ FaultyApplicabilityContained(rule)
                   /\ halt = "none" => OthersEvaluatedAndRun(rule)

\* A pass has ended in which a rule's appliesTo threw and a rule evaluated
\* after it was executed.
C9_Witness ==
    /\ ExecuteDone
    /\ \E i, j \in 1..Len(enabledRules) :
          /\ i < j
          /\ answers[enabledRules[i].id] = "throw"
          /\ InList(executedRules, enabledRules[j].id)

\* C10 as stated: in executeSpecific, when a requested enabled rule's
\* appliesTo throws, the call returns a result instead of rejecting, the rule
\* is in skippedRules and the remaining requested rules are still run.
C10_SpecificContainment ==
    (kind = "executeSpecific") =>
       /\ pc # "rejected"
       /\ pc = "done" =>
             \A rule \in Range(enabledRules) :
                answers[rule.id] = "throw" => InList(skippedRules, rule.id)

----------------------------------------------------------------------------
\* Disabled rules

Disabled(id) == HasRule(rules, id) /\ ~GetRule(rules, id).enabled

C11_State ==
    pc # "idle" =>
       \A id \in Ids :
          Disabled(id) =>
             /\ applied[id] = "none"
             /\ \A i \in 1..Len(invoked) : invoked[i].id # id
             /\ returned[id] = NotCalled
             /\ ~InList(executedRules, id)
             /\ ~InList(skippedRules, id)

C11_Step ==
    \A id \in Ids, en \in BOOLEAN :
       SetRuleEnabled(id, en) =>
          /\ ret' = "none"
          /\ GetStats(rules').total = GetStats(rules).total
          /\ \A other \in Ids \ {id} : GetRule(rules', other) = GetRule(rules, other)
          /\ IF HasRule(rules, id)
             THEN /\ HasRule(rules', id)
                  /\ Ident(GetRule(rules', id)) = Ident(GetRule(rules, id))
                  /\ GetRule(rules', id).enabled = en
                  /\ GetStats(rules').enabled + GetStats(rules').disabled
                        = GetStats(rules').total
             ELSE rules' = rules

\* C11: a disabled rule stays registered and is never run: setRuleEnabled
\* changes only the enabled flag of the rule with that id (getRule still
\* returns it, getStats().total is the same), a pass calls neither appliesTo
\* nor validate of a rule that is disabled and lists it in neither
\* executedRules nor skippedRules, setRuleEnabled(id, true) makes it enabled
\* again, and on an unknown id nothing changes and nothing is raised.
C11_DisabledRule == [](C11_State) /\ [][C11_Step]_vars

\* An execute pass that ran a rule is over while another rule is registered
\* and disabled.
C11_Witness ==
    /\ ExecuteDone
    /\ executedRules # << >>
    /\ \E id \in Ids : Disabled(id)
    /\ GetStats(rules).total > Len(enabledRules)

----------------------------------------------------------------------------
\* validateXML(xmlContent, fileName, fileSize, options)

Finding(sev, code) == [severity |-> sev, code |-> code]

\* GuiaType (tiss.ts), some of the guide types and "unknown".
GuiaTypes == {"tissGuiaSP_SADT", "tissLoteGuias", "unknown"}

\* What validateXMLStructure returns: nothing, or the one E002 error.
SyntaxOutcomes == {<< >>, <<Finding("error", "E002")>>}

\* What the awaited globalRuleEngine.execute(context) settles to: it
\* rejects, or resolves to a result with its errors and warnings.
EngineRejects == [tag |-> "reject", errors |-> << >>, warnings |-> << >>]
EngineResults ==
    [tag : {"result"},
     errors : {<< >>, <<Finding("error", "E010")>>},
     warnings : {<< >>, <<Finding("warning", "W004")>>,
                 <<Finding("info", "I001"), Finding("warning", "W004")>>}]
EngineOutcomes == {EngineRejects} \cup EngineResults

\* What the awaited validateAgainstXSD settles to: it rejects, or resolves to
\* findings of any severity.
XsdRejects == [tag |-> "reject", findings |-> << >>]
XsdOutcomes ==
    {XsdRejects} \cup
    [tag : {"result"},
     findings : {<< >>, <<Finding("error", "XSD001")>>, <<Finding("warning", "XSD002")>>,
                 <<Finding("warning", "XSD002"), Finding("error", "XSD001")>>}]

\* forEach(err => severity === 'error' ? errors.push(err) : warnings.push(err))
RECURSIVE Bucket(_, _, _)
Bucket(findings, errs, warns) ==
    IF findings = << >> THEN [errors |-> errs, warnings |-> warns]
    ELSE IF Head(findings).severity = "error"
         THEN Bucket(Tail(findings), Append(errs, Head(findings)), warns)
         ELSE Bucket(Tail(findings), errs, Append(warns, Head(findings)))

\* Determine final status
DeriveStatus(errs, warns) ==
    IF Len(errs) > 0 THEN "invalid"
    ELSE IF Len(warns) > 0 THEN "warning"
    ELSE "valid"

\* Step 6 is entered when XSD validation is not switched off and the guide
\* type is known; otherwise the status is derived and the result returned.
XsdOrFinish(guia, opts, errs, warns) ==
    /\ xerrors' = errs
    /\ xwarnings' = warns
    /\ IF opts.xsdEnabled /\ guia # "unknown"
       THEN /\ xpc' = "xsd"
            /\ xstatus' = "pending"
       ELSE /\ xpc' = "returned"
            /\ xstatus' = DeriveStatus(errs, warns)

\* The call up to its first await: syntax check (with the early return on
\* E002), type detection, parsing, and the call of the rule engine.
ValidateXML(syntax, guia, parseOk, opts) ==
    /\ xpc = "idle"
    /\ xoptions' = opts
    /\ LET b == Bucket(syntax, << >>, << >>)
       IN  IF \E i \in 1..Len(b.errors) : b.errors[i].code = "E002"
           THEN /\ xpc' = "returned"
                /\ xguiaType' = "unknown"
                /\ xstatus' = "invalid"
                /\ xerrors' = b.errors
                /\ xwarnings' = b.warnings
                /\ xparsed' = FALSE
           ELSE /\ xguiaType' = guia
                /\ xparsed' = parseOk
                /\ IF parseOk
                   THEN /\ xpc' = "engine"
                        /\ xerrors' = b.errors
                        /\ xwarnings' = b.warnings
                        /\ xstatus' = "pending"
                   ELSE XsdOrFinish(guia, opts,
                                    Append(b.errors, Finding("error", "E004")), b.warnings)
    /\ UNCHANGED notXml

\* globalRuleEngine.execute(context) settles.
EngineSettles(res) ==
    /\ xpc = "engine"
    /\ IF res.tag = "reject"
       THEN XsdOrFinish(xguiaType, xoptions, xerrors,
                        Append(xwarnings, Finding("warning", "W999")))
       ELSE XsdOrFinish(xguiaType, xoptions, xerrors \o res.errors,
                        xwarnings \o res.warnings)
    /\ UNCHANGED <<xoptions, xguiaType, xparsed>>
    /\ UNCHANGED notXml

\* validateAgainstXSD settles; the status is derived and the result returned.
XsdSettles(out) ==
    /\ xpc = "xsd"
    /\ LET b == IF out.tag = "reject"
                THEN [errors |-> xerrors,
                      warnings |-> Append(xwarnings, Finding("warning", "XSD011"))]
                ELSE Bucket(out.findings, xerrors, xwarnings)
       IN  /\ xerrors' = b.errors
           /\ xwarnings' = b.warnings
           /\ xstatus' = DeriveStatus(b.errors, b.warnings)
    /\ xpc' = "returned"
    /\ UNCHANGED <<xoptions, xguiaType, xparsed>>
    /\ UNCHANGED notXml

\* The caller takes the ValidationResult.
ResultTaken ==
    /\ xpc = "returned"
    /\ xpc' = "idle"
    /\ xoptions' = [xsdEnabled |-> TRUE]
    /\ xguiaType' = "unknown"
    /\ xparsed' = FALSE
    /\ xerrors' = << >>
    /\ xwarnings' = << >>
    /\ xstatus' = "pending"
    /\ UNCHANGED notXml

XmlNext ==
    \/ \E syntax \in SyntaxOutcomes, guia \in GuiaTypes, parseOk \in BOOLEAN,
          opts \in [xsdEnabled : BOOLEAN] : ValidateXML(syntax, guia, parseOk, opts)
    \/ \E res \in EngineOutcomes : EngineSettles(res)
    \/ \E out \in XsdOutcomes : XsdSettles(out)
    \/ ResultTaken

XmlSpec == Init /\ [][XmlNext]_vars

\* C12: the status validateXML returns is "valid" exactly when errors is
\* empty, whether or not warnings is empty, and "invalid" exactly when errors
\* is non-empty.
C12_StatusDerivation ==
    xpc = "returned" =>
       /\ (xstatus = "valid") <=> (xerrors = << >>)
       /\ (xstatus = "invalid") <=> (xerrors # << >>)

----------------------------------------------------------------------------
\* TussTablesService.initializeProcedures() (initializeMedications and
\* CBOService.initialize are the same code over their own statics)

LoadingSetNever(p) == FALSE

\* if (this.proceduresLoading)
LoadingSet(p) == p # "null"

\* if (this.proceduresTable)
TablePopulated(t) == t # "null"

\* A call up to its first await or its return: the table is there, or a load
\* is (or was) under way and is awaited, or the load is started: the async
\* function runs to its fetch, its promise is stored and awaited.
InitializeProcedures(c) ==
    /\ callers[c] = "idle"
    /\ IF TablePopulated(proceduresTable)
       THEN /\ callers' = [callers EXCEPT ![c] = "returned"]
            /\ UNCHANGED <<proceduresLoading, loader, waitsOn, fetches, promises>>
       ELSE IF LoadingSet(proceduresLoading)
       THEN /\ callers' = [callers EXCEPT ![c] = "await"]
            /\ waitsOn' = [waitsOn EXCEPT ![c] = promises]
            /\ UNCHANGED <<proceduresLoading, loader, fetches, promises>>
       ELSE /\ loader' = "fetch"
            /\ fetches' = fetches + 1
            /\ proceduresLoading' = "pending"
            /\ promises' = promises + 1
            /\ callers' = [callers EXCEPT ![c] = "await"]
            /\ waitsOn' = [waitsOn EXCEPT ![c] = promises + 1]
    /\ UNCHANGED <<proceduresTable, proceduresError, stores>>
    /\ UNCHANGED notSvc

\* The catch of the load: the error is kept and rethrown, the promise rejects.
LoadFails ==
    /\ proceduresError' = "error"
    /\ proceduresLoading' = "rejected"
    /\ loader' = "over"

FetchOutcomes == {"ok", "http error", "reject"}

\* The awaited fetch settles: a response that is ok is read as JSON.
FetchSettles(res) ==
    /\ loader = "fetch"
    /\ IF res = "ok"
       THEN /\ loader' = "json"
            /\ UNCHANGED <<proceduresLoading, proceduresError>>
       ELSE LoadFails
    /\ UNCHANGED <<proceduresTable, callers, waitsOn, fetches, promises, stores>>
    /\ UNCHANGED notSvc

\* What response.json() settles to: a table, a value without .procedures
\* (truthy), null, or a rejection.
JsonOutcomes == {"table", "malformed", "null", "reject"}

\* The awaited response.json() settles: its value is stored, and
\* Object.keys(this.proceduresTable.procedures) throws unless it is a table.
JsonSettles(json) ==
    /\ loader = "json"
    /\ IF json = "reject"
       THEN /\ LoadFails
            /\ UNCHANGED <<proceduresTable, stores>>
       ELSE /\ proceduresTable' = json
            /\ stores' = stores + 1
            /\ IF json = "table"
               THEN /\ proceduresLoading' = "fulfilled"
                    /\ loader' = "over"
                    /\ UNCHANGED proceduresError
               ELSE LoadFails
    /\ UNCHANGED <<callers, waitsOn, fetches, promises>>
    /\ UNCHANGED notSvc

\* await this.proceduresLoading resumes: the call returns, or throws what
\* the promise was rejected with.
InitializeResumes(c) ==
    /\ callers[c] = "await"
    /\ proceduresLoading \in {"fulfilled", "rejected"}
    /\ callers' = [callers EXCEPT ![c] =
                      IF proceduresLoading = "fulfilled" THEN "returned" ELSE "threw"]
    /\ UNCHANGED <<proceduresTable, proceduresLoading, proceduresError, loader,
                   waitsOn, fetches, promises, stores>>
    /\ UNCHANGED notSvc

\* The caller has its answer and may call again.
CallerGoesOn(c) ==
    /\ callers[c] \in {"returned", "threw"}
    /\ callers' = [callers EXCEPT ![c] = "idle"]
    /\ waitsOn' = [waitsOn EXCEPT ![c] = 0]
    /\ UNCHANGED <<proceduresTable, proceduresLoading, proceduresError, loader,
                   fetches, promises, stores>>
    /\ UNCHANGED notSvc

SvcNext ==
    \/ \E c \in Callers : InitializeProcedures(c)
    \/ \E res \in FetchOutcomes : FetchSettles(res)
    \/ \E json \in JsonOutcomes : JsonSettles(json)
    \/ \E c \in Callers : InitializeResumes(c)
    \/ \E c \in Callers : CallerGoesOn(c)

SvcSpec == Init /\ [][SvcNext]_vars

C13_State ==
    /\ fetches <= 1
    /\ promises <= 1
    /\ \A c \in Callers : callers[c] = "await" => waitsOn[c] = 1
    /\ \A c \in Callers :
          callers[c] = "await" => proceduresLoading # "null" /\ fetches = 1
    /\ \A c \in Callers : callers[c] = "returned" => TablePopulated(proceduresTable)

C13_Step ==
    TablePopulated(proceduresTable) =>
       /\ fetches' = fetches
       /\ proceduresTable' = proceduresTable
       /\ stores' = stores

\* C13: with no reset(), whatever the interleaving of the calls of
\* initializeProcedures: at most one fetch is issued, every waiting caller
\* waits on the one promise of that load, a call returns only with the table
\* populated, and once the table is populated no step fetches or stores a
\* table again.
C13_SingleFlight == [](C13_State) /\ [][C13_Step]_vars

\* Two calls wait on the load in flight while a third, made after the table
\* was populated, has returned at once.
C13_Witness ==
    /\ fetches = 1
    /\ proceduresTable = "table"
    /\ \E c, d \in Callers : c # d /\ callers[c] = "await" /\ callers[d] = "returned"
    /\ \E c, d \in Callers : c # d /\ callers[c] = "await" /\ callers[d] = "await"

----------------------------------------------------------------------------
\* Concurrent passes: execute calls on one engine, interleaved at their awaits

\* The rules registered by registerBuiltInRules stand for themselves: two
\* rules of different priority, registered out of priority order.
BuiltIn ==
    <<[id |-> "b", priority |-> 20, enabled |-> TRUE],
      [id |-> "a", priority |-> 10, enabled |-> TRUE]>>

\* A finding is an object made for one context.
Tag(p, findings) ==
    [k \in 1..Len(findings) |->
        [ctx |-> p, rule |-> findings[k].rule, n |-> findings[k].n,
         severity |-> findings[k].severity]]

\* Another call is suspended at an await.
OthersWait(p) == \E o \in Passes \ {p} : pass[o].pc \in {"seq", "par"}

SharedLocals(p) == 1

\* errors, warnings, executedRules and skippedRules are consts of the call.
OwnLocals(p) == p

\* A call is made with the registry as it then is: what another reading of
\* this.rules would give for the rule at position k.
RuleOfRegistry(me, k) ==
    IF HasRule(engine, me.applicableRules[k].id)
    THEN GetRule(engine, me.applicableRules[k].id)
    ELSE me.applicableRules[k]

\* for (const rule of applicableRules): the loop runs the objects of the
\* array that the call built when it started.
RuleOfPass(me, k) == me.applicableRules[k]

\* execute, up to its first await.
ConExecute(p, opts, ap) ==
    /\ pass[p].pc = "idle"
    /\ \A id \in Ids : ~(HasRule(engine, id) /\ GetRule(engine, id).enabled) => ap[id] = "true"
    /\ LET enabled == SelectSeq(GetAllRules(engine), IsEnabled)
           f == FilterApplicable(enabled, ap)
           q == OwnLocals(p)
       IN  pass' = [pass EXCEPT
                      ![p].options = opts,
                      ![p].answers = ap,
                      ![p].registry = engine,
                      ![p].applicableRules = f.applicable,
                      ![p].settled = IF opts.parallel
                                     THEN [k \in 1..Len(f.applicable) |-> Pending]
                                     ELSE << >>,
                      ![p].idx = IF ~opts.parallel /\ f.applicable # << >> THEN 1 ELSE 0,
                      ![p].pc = IF opts.parallel THEN "par"
                                ELSE IF f.applicable = << >> THEN "done" ELSE "seq",
                      ![p].ran = IF opts.parallel THEN f.applicable
                                 ELSE IF f.applicable = << >> THEN << >>
                                 ELSE <<f.applicable[1]>>,
                      ![q].skippedRules = @ \o f.skipped]
    /\ UNCHANGED engine
    /\ UNCHANGED notCon

\* Sequential mode: the awaited executeRule settles and the loop goes on.
ConSeqResume(p, out, expired) ==
    /\ pass[p].pc = "seq"
    /\ LET me == pass[p]
           q == OwnLocals(p)
           rule == me.applicableRules[me.idx]
           cat == CategorizeErrors(Tag(p, ExecuteRule(rule, out)),
                                   pass[q].errors, pass[q].warnings)
           brk == /\ out.tag # "throw"
                  /\ \/ StopCheck(me.options, cat.errors)
                     \/ TimeoutCheck(me.options, expired)
           more == ~brk /\ me.idx < Len(me.applicableRules)
           read == out.tag # "throw" /\ ~StopCheck(me.options, cat.errors)
                   /\ me.options.timeoutMs # 0
       IN  pass' = [pass EXCEPT
                      ![p].returned[rule.id] = out,
                      ![p].expired[rule.id] = read /\ expired,
                      ![p].met = @ \/ OthersWait(p),
                      ![p].idx = IF more THEN @ + 1 ELSE @,
                      ![p].pc = IF more THEN "seq" ELSE "done",
                      ![p].ran = IF more THEN Append(@, RuleOfPass(me, me.idx + 1)) ELSE @,
                      ![q].skippedRules = IF out.tag = "throw"
                                          THEN ValidateCaught(rule, @) ELSE @,
                      ![q].executedRules = IF out.tag = "throw"
                                           THEN @ ELSE Append(@, rule.id),
                      ![q].errors = IF out.tag = "throw" THEN @ ELSE cat.errors,
                      ![q].warnings = IF out.tag = "throw" THEN @ ELSE cat.warnings]
    /\ UNCHANGED engine
    /\ UNCHANGED notCon

\* Parallel mode: one promise of the call settles.
ConParSettle(p, k, out) ==
    /\ pass[p].pc = "par"
    /\ k \in 1..Len(pass[p].settled)
    /\ pass[p].settled[k] = Pending
    /\ pass' = [pass EXCEPT
                   ![p].settled[k] = out,
                   ![p].met = @ \/ OthersWait(p),
                   ![p].returned[pass[p].applicableRules[k].id] = out]
    /\ UNCHANGED engine
    /\ UNCHANGED notCon

\* Parallel mode: Promise.allSettled resolves and results.forEach runs.
ConParAggregate(p) ==
    /\ pass[p].pc = "par"
    /\ \A k \in 1..Len(pass[p].settled) : pass[p].settled[k] # Pending
    /\ LET q == OwnLocals(p)
           c == ParallelCollect(pass[p].applicableRules, pass[p].settled, << >>)
       IN  pass' = [pass EXCEPT
                      ![p].pc = "done",
                      ![q].errors = @ \o Tag(p, c.errors),
                      ![q].warnings = @ \o Tag(p, c.warnings),
                      ![q].executedRules = @ \o c.executed,
                      ![q].skippedRules = @ \o c.skipped]
    /\ UNCHANGED engine
    /\ UNCHANGED notCon

\* The caller takes the result of the call.
ConReturn(p) ==
    /\ pass[p].pc = "done"
    /\ pass' = [pass EXCEPT ![p] = NoPass]
    /\ UNCHANGED engine
    /\ UNCHANGED notCon

\* setRuleEnabled, called while passes are in flight.
ConSetRuleEnabled(ruleId, enabled) ==
    /\ HasRule(engine, ruleId)
    /\ engine' = [engine EXCEPT ![IndexOf(engine, ruleId, 1)].enabled = enabled]
    /\ UNCHANGED pass
    /\ UNCHANGED notCon

\* register, called while a pass is in flight.
ConRegister(rule) ==
    /\ engine' = MapSet(engine, rule)
    /\ UNCHANGED pass
    /\ UNCHANGED notCon

\* unregister, called while a pass is in flight.
ConUnregister(ruleId) ==
    /\ engine' = MapDelete(engine, ruleId)
    /\ UNCHANGED pass
    /\ UNCHANGED notCon

ConInit ==
    /\ EngineInit
    /\ XmlIdle
    /\ SvcIdle
    /\ DocIdle
    /\ ScnIdle
    /\ DetIdle
    /\ engine = BuiltIn
    /\ pass = [p \in Passes |-> NoPass]

\* The options and contexts of the two calls, and the rule that is switched
\* off and on while they run.
ConOptionSets ==
    {NoOptions, [NoOptions EXCEPT !.stopOnFirstError = TRUE],
     [NoOptions EXCEPT !.timeoutMs = 50], [NoOptions EXCEPT !.parallel = TRUE]}
ConAnswers == Answers
ConOutcomes == ValidateOutcomes \ {NonArray}

ConNext ==
    \/ \E p \in Passes, opts \in ConOptionSets, ap \in ConAnswers : ConExecute(p, opts, ap)
    \/ \E p \in Passes, out \in ConOutcomes, expired \in BOOLEAN :
          ConSeqResume(p, out, expired)
    \/ \E p \in Passes, k \in 1..Cardinality(Ids), out \in ConOutcomes :
          ConParSettle(p, k, out)
    \/ \E p \in Passes : ConParAggregate(p)
    \/ \E p \in Passes : ConReturn(p)
    \/ \E en \in BOOLEAN : ConSetRuleEnabled("b", en)

ConSpec == ConInit /\ [][ConNext]_vars

\* One call of execute, with every registry call interleaved at its awaits.
\* The rules that are registered anew are enabled ones of two ids.
RegRules == {r \in RuleObjs : r.id \in {"a", "b"} /\ r.enabled}

RegNext ==
    \/ \E opts \in ConOptionSets, ap \in ConAnswers : ConExecute(1, opts, ap)
    \/ \E out \in ConOutcomes, expired \in BOOLEAN : ConSeqResume(1, out, expired)
    \/ \E k \in 1..Cardinality(Ids), out \in ConOutcomes : ConParSettle(1, k, out)
    \/ ConParAggregate(1)
    \/ ConReturn(1)
    \/ \E rule \in RegRules : ConRegister(rule)
    \/ \E id \in {"a", "b"} : ConUnregister(id)
    \/ \E id \in {"a", "b"}, en \in BOOLEAN : ConSetRuleEnabled(id, en)

RegSpec == ConInit /\ [][RegNext]_vars

\* What a call returns when it is the only one in flight, from the registry
\* at its start, its context and options, what its rules' validate settled
\* to and what its clock readings were: the sequential loop from rule k on.
RECURSIVE SeqAlone(_, _, _, _, _, _)
SeqAlone(applicable, k, opts, outs, exp, acc) ==
    IF k > Len(applicable) THEN acc
    ELSE LET rule == applicable[k]
             out == outs[rule.id]
             cat == CategorizeErrors(ExecuteRule(rule, out), acc.errors, acc.warnings)
             ran == [errors |-> cat.errors, warnings |-> cat.warnings,
                     executed |-> Append(acc.executed, rule.id), skipped |-> acc.skipped]
         IN  IF out.tag = "throw"
             THEN SeqAlone(applicable, k + 1, opts, outs, exp,
                           [acc EXCEPT !.skipped = Append(@, rule.id)])
             ELSE IF StopCheck(opts, cat.errors) \/ TimeoutCheck(opts, exp[rule.id])
             THEN ran
             ELSE SeqAlone(applicable, k + 1, opts, outs, exp, ran)

RunAlone(p, registry, opts, ap, outs, exp) ==
    LET f == FilterApplicable(SelectSeq(GetAllRules(registry), IsEnabled), ap)
        r == IF opts.parallel
             THEN ParallelCollect(f.applicable,
                                  [k \in 1..Len(f.applicable) |-> outs[f.applicable[k].id]],
                                  f.skipped)
             ELSE SeqAlone(f.applicable, 1, opts, outs, exp,
                           [errors |-> << >>, warnings |-> << >>,
                            executed |-> << >>, skipped |-> f.skipped])
    IN  [errors |-> Tag(p, r.errors), warnings |-> Tag(p, r.warnings),
         executedRules |-> r.executed, skippedRules |-> r.skipped]

ResultOf(p) ==
    [errors |-> pass[p].errors, warnings |-> pass[p].warnings,
     executedRules |-> pass[p].executedRules, skippedRules |-> pass[p].skippedRules]

\* C14: concurrent passes are independent: whatever the interleaving at the
\* await points, a call of execute returns exactly the errors, warnings,
\* executedRules and skippedRules it returns when run alone, and no finding
\* made for the other call's context is in its result.
C14_IndependentPasses ==
    \A p \in Passes :
       pass[p].pc = "done" =>
          /\ ResultOf(p) = RunAlone(p, pass[p].registry, pass[p].options, pass[p].answers,
                                    pass[p].returned, pass[p].expired)
          /\ \A f \in Range(pass[p].errors) \cup Range(pass[p].warnings) : f.ctx = p

\* Both calls were in flight at once, with different answers of the rules
\* and different outcomes, and both are over with findings of their own.
C14_Witness ==
    /\ pass[1].pc = "done"
    /\ pass[2].pc = "done"
    /\ pass[1].met
    /\ pass[2].met
    /\ pass[1].answers # pass[2].answers
    /\ pass[1].errors # << >>
    /\ pass[2].warnings # << >>
    /\ pass[2].executedRules = <<"a", "b">>
    /\ pass[1].executedRules = <<"b">>

----------------------------------------------------------------------------
\* Strings, as sequences of characters, and the String methods the rules use

UpperCase == <<"A", "B", "C", "D", "E", "F", "G", "H", "I", "J", "K", "L", "M", "N", "O", "P", "Q", "R", "S", "T", "U", "V", "W", "X", "Y", "Z">>
LowerCase == <<"a", "b", "c", "d", "e", "f", "g", "h", "i", "j", "k", "l", "m", "n", "o", "p", "q", "r", "s", "t", "u", "v", "w", "x", "y", "z">>

\* String.prototype.toLowerCase
ToLowerCase(s) ==
    [i \in 1..Len(s) |->
        IF \E j \in 1..Len(UpperCase) : UpperCase[j] = s[i]
        THEN LowerCase[CHOOSE j \in 1..Len(UpperCase) : UpperCase[j] = s[i]]
        ELSE s[i]]

KeepNamespace(key) == key

\* key.replace(/^[^:]+:/, ''): the text up to the first colon goes, when at
\* least one character precedes that colon.
StripNamespace(key) ==
    IF \E i \in 2..Len(key) : key[i] = ":" /\ key[1] # ":"
    THEN LET c == CHOOSE i \in 2..Len(key) :
                     key[i] = ":" /\ \A j \in 1..(i - 1) : key[j] # ":"
         IN  SubSeq(key, c + 1, Len(key))
    ELSE key

\* String.prototype.includes
Includes(s, t) == \E i \in 0..(Len(s) - Len(t)) : SubSeq(s, i + 1, i + Len(t)) = t

\* String.prototype.trim (of the white space, the blank is in the documents)
RECURSIVE TrimStart(_)
TrimStart(s) == IF s # << >> /\ Head(s) = " " THEN TrimStart(Tail(s)) ELSE s
RECURSIVE TrimEnd(_)
TrimEnd(s) ==
    IF s # << >> /\ s[Len(s)] = " " THEN TrimEnd(SubSeq(s, 1, Len(s) - 1)) ELSE s
Trim(s) == TrimEnd(TrimStart(s))

\* String.prototype.padStart(n, '0')
PadStart(s, n) == IF Len(s) >= n THEN s ELSE [i \in 1..(n - Len(s)) |-> "0"] \o s

\* String(value) of a number, given by its decimal digits.
DigitChars == <<"0", "1", "2", "3", "4", "5", "6", "7", "8", "9">>
DecString(digits) == [i \in 1..Len(digits) |-> DigitChars[digits[i] + 1]]

\* [...new Set(values)]: the first occurrence of each value, in order.
Dedup(values) ==
    LET firsts == SelectSeq([i \in 1..Len(values) |-> i],
                            LAMBDA i : \A j \in 1..(i - 1) : values[j] # values[i])
    IN  [k \in 1..Len(firsts) |-> values[firsts[k]]]

\* The values pushed by the parts of a walk, one after the other.
RECURSIVE Flatten(_)
Flatten(seqs) ==
    IF Len(seqs) = 0 THEN << >>
    ELSE IF Len(seqs) = 1 THEN seqs[1]
    ELSE LET h == Len(seqs) \div 2
         IN  Flatten(SubSeq(seqs, 1, h)) \o Flatten(SubSeq(seqs, h + 1, Len(seqs)))

----------------------------------------------------------------------------
\* The parsed document: a tree of strings, numbers, arrays and objects

Str(chars) == [k |-> "str", v |-> chars]
Num(digits) == [k |-> "num", v |-> digits]
Arr(items) == [k |-> "arr", v |-> items]
Obj(entries) == [k |-> "obj", v |-> entries]
Entry(key, val) == [key |-> key, val |-> val]

TextKey == <<"#", "t", "e", "x", "t">>

\* typeof value === 'object' && value !== null
IsObject(node) == node.k \in {"obj", "arr"}

\* '#text' in value
HasText(node) == node.k = "obj" /\ \E i \in 1..Len(node.v) : node.v[i].key = TextKey
TextOf(node) == node.v[CHOOSE i \in 1..Len(node.v) : node.v[i].key = TextKey].val

\* typeof value === 'string' && value.trim()
IsText(node) == node.k = "str" /\ Trim(node.v) # << >>

----------------------------------------------------------------------------
\* extractFieldValues of business-rules.ts

\* The widths identifiers are padded to.
CpfLength == 11
CnpjLength == 14
CnsLength == 15

sCpf == <<"c", "p", "f">>
sCnpj == <<"c", "n", "p", "j">>
sCns == <<"c", "n", "s">>

PaddedNever(cleanKey, strValue) == strValue

\* The padding of a number: the first of cpf, cnpj, cns that the cleaned key
\* contains and whose width the string falls short of.
Padded(cleanKey, strValue) ==
    IF Includes(cleanKey, sCpf) /\ Len(strValue) < CpfLength
    THEN PadStart(strValue, CpfLength)
    ELSE IF Includes(cleanKey, sCnpj) /\ Len(strValue) < CnpjLength
    THEN PadStart(strValue, CnpjLength)
    ELSE IF Includes(cleanKey, sCns) /\ Len(strValue) < CnsLength
    THEN PadStart(strValue, CnsLength)
    ELSE strValue

\* traverse(current), as the values it pushes, in order.
RECURSIVE Traverse(_, _)
Traverse(current, searchTerm) ==
    IF current.k = "arr"
    THEN Flatten([i \in 1..Len(current.v) |-> Traverse(current.v[i], searchTerm)])
    ELSE IF current.k = "obj"
    THEN Flatten([i \in 1..Len(current.v) |->
            LET cleanKey == ToLowerCase(StripNamespace(current.v[i].key))
                value == current.v[i].val
            IN  IF Includes(cleanKey, searchTerm)
                THEN IF IsText(value) THEN <<Trim(value.v)>>
                     ELSE IF value.k = "num" THEN <<Padded(cleanKey, DecString(value.v))>>
                     ELSE IF HasText(value)
                     THEN IF IsText(TextOf(value)) THEN <<Trim(TextOf(value).v)>> ELSE << >>
                     ELSE IF IsObject(value) THEN Traverse(value, searchTerm)
                     ELSE << >>
                ELSE IF IsObject(value) THEN Traverse(value, searchTerm) ELSE << >>])
    ELSE << >>

ExtractFieldValues(obj, fieldName) == Dedup(Traverse(obj, ToLowerCase(fieldName)))

----------------------------------------------------------------------------
\* extractFieldValues of the files of DuplicidadeGuiaRule and LimiteLoteRule
\* (the same text in both): no padding, no text-node unwrapping, and the walk goes
\* on below every key

RECURSIVE TraverseCopy(_, _)
TraverseCopy(current, searchTerm) ==
    IF current.k = "arr"
    THEN Flatten([i \in 1..Len(current.v) |-> TraverseCopy(current.v[i], searchTerm)])
    ELSE IF current.k = "obj"
    THEN Flatten([i \in 1..Len(current.v) |->
            LET cleanKey == ToLowerCase(StripNamespace(current.v[i].key))
                value == current.v[i].val
                pushed == IF ~Includes(cleanKey, searchTerm) THEN << >>
                          ELSE IF IsText(value) THEN <<Trim(value.v)>>
                          ELSE IF value.k = "num" THEN <<DecString(value.v)>>
                          ELSE << >>
            IN  pushed \o (IF IsObject(value) THEN TraverseCopy(value, searchTerm)
                           ELSE << >>)])
    ELSE << >>

KeepAll(values) == values

\* return [...new Set(values)]
Distinct(values) == Dedup(values)

ExtractFieldValuesCopy(obj, fieldName) ==
    Distinct(TraverseCopy(obj, ToLowerCase(fieldName)))

sNumeroGuia == <<"n", "u", "m", "e", "r", "o", "g", "u", "i", "a">>

\* DuplicidadeGuiaRule.validate: contagem and duplicados over the guide
\* numbers, then one DUPL001 error for each member of duplicados.
Count(values, x) == Cardinality({i \in 1..Len(values) : values[i] = x})

\* duplicados: a number is added when its count first exceeds 1.
Duplicados(numerosGuia) ==
    LET seconds == SelectSeq([i \in 1..Len(numerosGuia) |-> i],
                             LAMBDA i : Count(SubSeq(numerosGuia, 1, i), numerosGuia[i]) = 2)
    IN  [k \in 1..Len(seconds) |-> numerosGuia[seconds[k]]]

DuplicidadeGuia(parsedXml) ==
    LET numerosGuia == ExtractFieldValuesCopy(parsedXml, sNumeroGuia)
        duplicados == Duplicados(numerosGuia)
    IN  IF Len(numerosGuia) < 2 THEN << >>
        ELSE [i \in 1..Len(duplicados) |->
                 [severity |-> "error", code |-> "DUPL001", about |-> duplicados[i]]]

\* The limits of LimiteLoteRule.
LoteMax == 300
LoteNear == 250

\* LimiteLoteRule.validate
LimiteLote(parsedXml) ==
    LET count == Len(ExtractFieldValuesCopy(parsedXml, sNumeroGuia))
    IN  IF count > LoteMax
        THEN <<[severity |-> "error", code |-> "LOTE001", about |-> << >>]>>
        ELSE IF count > LoteNear
        THEN <<[severity |-> "warning", code |-> "LOTE002", about |-> << >>]>>
        ELSE << >>

----------------------------------------------------------------------------
\* Documents and field names the functions are applied to

kNumeroGuia == <<"a", "n", "s", ":", "n", "u", "m", "e", "r", "o", "G", "u", "i", "a">>
kGuiaPrestador == <<"n", "u", "m", "e", "r", "o", "G", "u", "i", "a", "P", "r", "e", "s", "t", "a", "d", "o", "r">>
kCpf == <<"c", "p", "f">>
kCnpj == <<"a", "n", "s", ":", "C", "N", "P", "J">>
kCns == <<"n", "u", "m", "e", "r", "o", "C", "N", "S">>
kCpfCnpj == <<"c", "p", "f", "C", "n", "p", "j">>
kNome == <<"n", "o", "m", "e">>
kCnsNome == <<"c", "n", "s", ":", "n", "o", "m", "e">>
kProcedimento == <<"p", "r", "o", "c", "e", "d", "i", "m", "e", "n", "t", "o">>
kGuias == <<"g", "u", "i", "a", "s">>

Keys == {kNumeroGuia, kGuiaPrestador, kCpf, kCnpj, kCns, kCpfCnpj, kNome, kCnsNome}

FieldNames == {sNumeroGuia, <<"N", "u", "m", "e", "r", "o", "G", "u", "i", "a">>, sCpf, sCnpj, sCns}

\* Values of leaf elements: text (one with blanks around it, one empty) ...
G100 == Str(<<"G", "-", "1", "0", "0">>)
G100Blanks == Str(<<" ", "G", "-", "1", "0", "0", " ">>)
G200 == Str(<<"G", "-", "2", "0", "0">>)
T123 == Str(<<"1", "2", "3">>)
Empty == Str(<< >>)
\* ... and numbers of 3, 10, 11, 13, 14 and 15 digits.
N123 == Num(<<1, 2, 3>>)
N10 == Num(<<1, 2, 3, 4, 5, 6, 7, 8, 9, 0>>)
N11 == Num(<<1, 2, 3, 4, 5, 6, 7, 8, 9, 0, 1>>)
N13 == Num(<<1, 2, 3, 4, 5, 6, 7, 8, 0, 0, 0, 1, 9>>)
N14 == Num(<<1, 2, 3, 4, 5, 6, 7, 8, 0, 0, 0, 1, 9, 9>>)
N15 == Num(<<1, 2, 3, 4, 5, 6, 7, 8, 9, 0, 1, 2, 3, 4, 5>>)

Leaves == {G100, G100Blanks, Empty, N123, N10, N11, N13, N14, N15}
GuiaLeaves == {G100, G100Blanks, G200, T123, N123, Empty}

\* { key: leaf }
Flat == {Obj(<<Entry(key, leaf)>>) : key \in Keys, leaf \in Leaves}

\* { procedimento: [ { "ans:numeroGuia": x }, { numeroGuiaPrestador: y } ] }
Procedures ==
    {Obj(<<Entry(kProcedimento,
                 Arr(<<Obj(<<Entry(kNumeroGuia, x)>>), Obj(<<Entry(kGuiaPrestador, y)>>)>>))>>) :
        x \in GuiaLeaves, y \in GuiaLeaves}

\* { key: { "#text": x, "ans:numeroGuia": "G-200" } }: an element with text
\* and a child
Wrapped ==
    {Obj(<<Entry(key, Obj(<<Entry(TextKey, x), Entry(kNumeroGuia, G200)>>))>>) :
        key \in {kNumeroGuia, kNome}, x \in {G100, N123, Empty}}

\* { "ans:numeroGuia": [ "G-100", "G-200" ] }: repeated leaf elements; and
\* { "ans:numeroGuia": [ { numeroGuiaPrestador: "G-100" } ] }
Repeated ==
    {Obj(<<Entry(kNumeroGuia, Arr(<<G100, G200>>))>>),
     Obj(<<Entry(kNumeroGuia, Arr(<<Obj(<<Entry(kGuiaPrestador, G100)>>)>>))>>)}

RECURSIVE DigitsOf(_)
DigitsOf(n) == IF n < 10 THEN <<n>> ELSE Append(DigitsOf(n \div 10), n % 10)

\* A batch of n guides numbered 1..n, and after them r guides that repeat
\* the numbers 1..r: { guias: [ { "ans:numeroGuia": 1 }, ... ] }
Lote(n, r) ==
    Obj(<<Entry(kGuias,
                Arr([i \in 1..(n + r) |->
                       Obj(<<Entry(kNumeroGuia, Num(DigitsOf(IF i <= n THEN i ELSE i - n)))>>)]))>>)

\* The sizes of the batches.
LoteSizes == {2, LoteNear, LoteNear + 1, 280, LoteMax - 1, LoteMax, LoteMax + 1}
Lotes == {Lote(n, r) : n \in LoteSizes, r \in {0, 2}}

Docs == Flat \cup Procedures \cup Wrapped \cup Repeated \cup Lotes

\* extractFieldValues(context.parsedXml, fieldName) of business-rules.ts
CallExtractFieldValues ==
    /\ called = "none"
    /\ called' = "extractFieldValues"
    /\ result' = ExtractFieldValues(tree, field)
    /\ UNCHANGED <<tree, field>>
    /\ UNCHANGED notDoc

\* new DuplicidadeGuiaRule().validate(context)
CallDuplicidadeGuia ==
    /\ called = "none"
    /\ called' = "DuplicidadeGuiaRule"
    /\ result' = DuplicidadeGuia(tree)
    /\ UNCHANGED <<tree, field>>
    /\ UNCHANGED notDoc

\* new LimiteLoteRule().validate(context)
CallLimiteLote ==
    /\ called = "none"
    /\ called' = "LimiteLoteRule"
    /\ result' = LimiteLote(tree)
    /\ UNCHANGED <<tree, field>>
    /\ UNCHANGED notDoc

DocInit ==
    /\ EngineInit
    /\ XmlIdle
    /\ SvcIdle
    /\ ConIdle
    /\ ScnIdle
    /\ DetIdle
    /\ tree \in Docs
    /\ field \in FieldNames
    /\ called = "none"
    /\ result = << >>

DocNext ==
    \/ CallExtractFieldValues
    \/ CallDuplicidadeGuia
    \/ CallLimiteLote

DocSpec == DocInit /\ [][DocNext]_vars

----------------------------------------------------------------------------
\* Properties of the rules' functions

\* The guide numbers as they occur in the document, one per occurrence.
GuideNumbers == TraverseCopy(tree, sNumeroGuia)

FindingsAbout(num) ==
    {i \in 1..Len(result) : result[i].code = "DUPL001" /\ result[i].about = num}

\* C15: DuplicidadeGuiaRule.validate emits exactly one DUPL001 error for each
\* distinct numeroGuia value that occurs more than once in the document, and
\* none for a value that occurs once.
C15_OnePerDuplicate ==
    called = "DuplicidadeGuiaRule" =>
       /\ \A i \in 1..Len(result) :
             result[i].code = "DUPL001" /\ result[i].severity = "error"
       /\ \A num \in Range(GuideNumbers) :
             Cardinality(FindingsAbout(num))
                = IF Count(GuideNumbers, num) > 1 THEN 1 ELSE 0

DistinctGuides == Cardinality(Range(GuideNumbers))

\* C16: LimiteLoteRule.validate emits exactly one LOTE001 error on a document
\* with 301 distinct numeroGuia values, no finding on one with exactly 300,
\* and exactly one LOTE002 warning on one with 280.
C16_BatchLimit ==
    called = "LimiteLoteRule" =>
       /\ DistinctGuides = 301 =>
             /\ Len(result) = 1
             /\ result[1].code = "LOTE001"
             /\ result[1].severity = "error"
       /\ DistinctGuides = 300 => result = << >>
       /\ DistinctGuides = 280 =>
             /\ Len(result) = 1
             /\ result[1].code = "LOTE002"
             /\ result[1].severity = "warning"

\* A document of one element whose value is a number, { key: n }, searched
\* with a field name that the key matches.
NumberUnderMatch ==
    /\ called = "extractFieldValues"
    /\ tree.k = "obj"
    /\ Len(tree.v) = 1
    /\ tree.v[1].val.k = "num"
    /\ Includes(ToLowerCase(StripNamespace(tree.v[1].key)), ToLowerCase(field))

TheKey == ToLowerCase(StripNamespace(tree.v[1].key))
TheNumber == DecString(tree.v[1].val.v)

\* r is s left-padded with zeros to w characters; s itself if it has w or more.
IsPaddedTo(r, s, w) ==
    LET z == Len(r) - Len(s)
    IN  /\ Len(r) = IF Len(s) >= w THEN Len(s) ELSE w
        /\ \A i \in 1..z : r[i] = "0"
        /\ \A i \in 1..Len(s) : r[z + i] = s[i]

\* C18 as stated: the three paddings hold independently of each other.
C18_AsStated ==
    NumberUnderMatch =>
       /\ Len(result) = 1
       /\ Includes(TheKey, sCpf) => IsPaddedTo(result[1], TheNumber, 11)
       /\ Includes(TheKey, sCnpj) => IsPaddedTo(result[1], TheNumber, 14)
       /\ Includes(TheKey, sCns) => IsPaddedTo(result[1], TheNumber, 15)
       /\ (~Includes(TheKey, sCpf) /\ ~Includes(TheKey, sCnpj) /\ ~Includes(TheKey, sCns))
             => result[1] = TheNumber

\* The width that applies: of the words the key contains, taken in the
\* order cpf, cnpj, cns, the first whose width the number falls short of.
WidthFor(key, s) ==
    IF Includes(key, sCpf) /\ Len(s) < 11 THEN 11
    ELSE IF Includes(key, sCnpj) /\ Len(s) < 14 THEN 14
    ELSE IF Includes(key, sCns) /\ Len(s) < 15 THEN 15
    ELSE 0

\* C18: extractFieldValues returns a number found under a matching key as
\* its decimal string, left-padded with zeros to one width: 11 if the cleaned
\* key contains "cpf" and the string is shorter, else 14 if it contains "cnpj"
\* and the string is shorter, else 15 if it contains "cns" and the string is
\* shorter; otherwise the string is returned as it is.
C18_ZeroPadding ==
    NumberUnderMatch =>
       /\ Len(result) = 1
       /\ IsPaddedTo(result[1], TheNumber, WidthFor(TheKey, TheNumber))

\* { cpf: 1234567890 } searched with "cpf" gave ["01234567890"].
C18_Witness ==
    /\ NumberUnderMatch
    /\ tree.v[1].key = kCpf
    /\ field = sCpf
    /\ tree.v[1].val = N10
    /\ result = << <<"0", "1", "2", "3", "4", "5", "6", "7", "8", "9", "0">> >>

\* The name of a key without its prefix: what follows the first colon, when
\* the key has a colon and does not begin with it.
CleanedName(key) ==
    LET colons == {i \in 1..Len(key) : key[i] = ":"}
    IN  IF colons = {} \/ 1 \in colons THEN key
        ELSE SubSeq(key, (CHOOSE i \in colons : \A j \in colons : i <= j) + 1, Len(key))

KeyMatches(key, term) ==
    Includes(ToLowerCase(CleanedName(key)), ToLowerCase(term))

\* Every object node of a tree.
RECURSIVE AllObjects(_)
AllObjects(node) ==
    IF node.k = "arr" THEN UNION {AllObjects(node.v[i]) : i \in 1..Len(node.v)}
    ELSE IF node.k = "obj"
    THEN {node} \cup UNION {AllObjects(node.v[i].val) : i \in 1..Len(node.v)}
    ELSE {}

\* The object nodes the walk comes to: it goes through arrays and below
\* every key, but not below a matching key whose value has a "#text" member.
RECURSIVE Walked(_, _)
Walked(node, term) ==
    IF node.k = "arr" THEN UNION {Walked(node.v[i], term) : i \in 1..Len(node.v)}
    ELSE IF node.k = "obj"
    THEN {node} \cup
         UNION {Walked(node.v[i].val, term) :
                  i \in {j \in 1..Len(node.v) :
                           ~(KeyMatches(node.v[j].key, term) /\ HasText(node.v[j].val))}}
    ELSE {}

\* The scalar value of an element: a text that is not blank, trimmed, or
\* the decimal string of a number (padded under an identifier key).
ScalarOf(entry) ==
    IF entry.val.k = "str" /\ Trim(entry.val.v) # << >> THEN {Trim(entry.val.v)}
    ELSE IF entry.val.k = "num"
    THEN {Padded(ToLowerCase(CleanedName(entry.key)), DecString(entry.val.v))}
    ELSE {}

\* The text of an element that has text beside attributes or children.
TextUnder(entry) ==
    IF entry.val.k = "obj"
    THEN UNION {ScalarOf(entry.val.v[i]) :
                  i \in {j \in 1..Len(entry.val.v) :
                           entry.val.v[j].key = TextKey /\ entry.val.v[j].val.k = "str"}}
    ELSE {}

\* What the matching keys of the object nodes of a set give.
ValuesOfMatches(objects, term) ==
    UNION {UNION {ScalarOf(o.v[i]) \cup TextUnder(o.v[i]) :
                    i \in {j \in 1..Len(o.v) : KeyMatches(o.v[j].key, term)}} :
             o \in objects}

\* C19 as stated: the scalar value of every matching key of every object
\* node of the tree is returned, and nothing but values of matching keys.
C19_AsStated ==
    called = "extractFieldValues" =>
       /\ \A o \in AllObjects(tree) : \A i \in 1..Len(o.v) :
             KeyMatches(o.v[i].key, field) => ScalarOf(o.v[i]) \subseteq Range(result)
       /\ Range(result) \subseteq ValuesOfMatches(AllObjects(tree), field)

\* C19: a key matches exactly when its name, with the prefix up to the first
\* colon removed and lower-cased, contains the lower-cased search term;
\* extractFieldValues returns, each once, the values of the matching keys of
\* the object nodes its walk comes to, at any depth and inside arrays, and no
\* other value. The walk does not go below a matching key whose value has a
\* "#text" member: of that key the text alone is returned.
C19_MatchPolicy ==
    called = "extractFieldValues" =>
       /\ Range(result) = ValuesOfMatches(Walked(tree, field), field)
       /\ \A i, j \in 1..Len(result) : result[i] = result[j] => i = j

\* { procedimento: [ { "ans:numeroGuia": "123" }, { numeroGuiaPrestador: "G-100" } ] }
\* searched with "NumeroGuia" gave both values.
C19_Witness ==
    /\ called = "extractFieldValues"
    /\ tree \in Procedures
    /\ field = <<"N", "u", "m", "e", "r", "o", "G", "u", "i", "a">>
    /\ result = <<T123.v, G100.v>>

\* A pass of execute in parallel mode, from its fan-out to its return.
ParallelPass == kind = "execute" /\ options.parallel /\ pc \in {"par", "done"}

\* The findings of the result that the rule at position k of applicableRules made.
FindingsAt(k) ==
    SelectSeq(errors \o warnings, LAMBDA f : f.rule = applicableRules[k].id)

C20_State ==
    ParallelPass =>
       /\ invoked = applicableRules
       /\ halt = "none"
       /\ pc = "par" => errors = << >> /\ warnings = << >> /\ executedRules = << >>
       /\ pc = "done" =>
             \A k \in 1..Len(applicableRules) :
                /\ settled[k] # Pending
                /\ Occurrences(executedRules, applicableRules[k].id)
                      + Occurrences(skippedRules, applicableRules[k].id) = 1
                /\ InList(skippedRules, applicableRules[k].id) <=> settled[k] = Throws
                /\ settled[k] # Throws =>
                      Len(FindingsAt(k)) = Len(ExecuteRule(applicableRules[k], settled[k]))

C20_Step ==
    (ParallelPass /\ pc = "par") =>
       /\ applicableRules' = applicableRules
       /\ invoked' = invoked
       /\ \A k \in 1..Len(settled) : settled[k] # Pending => settled'[k] = settled[k]
       /\ pc' \in {"par", "done"}
       /\ pc' = "done" => \A k \in 1..Len(settled) : settled[k] # Pending

\* C20: in parallel mode validate is invoked for every applicable rule
\* before any result is aggregated; execute returns only after all of them
\* have settled; a rejection cancels no sibling, whose findings are in the
\* result in full; each applicable rule ends in exactly one of executedRules
\* and skippedRules; stopOnFirstError and timeoutMs never reduce the set of
\* rules run.
C20_ParallelBarrier == [](C20_State) /\ [][C20_Step]_vars

\* A parallel pass under stopOnFirstError and a timeout in which one rule
\* rejected and two siblings were executed, the first of them with an error.
C20_Witness ==
    /\ ParallelPass
    /\ pc = "done"
    /\ options.stopOnFirstError
    /\ options.timeoutMs # 0
    /\ Len(executedRules) >= 2
    /\ errors # << >>
    /\ errors[1].rule = executedRules[1]
    /\ \E k \in 1..Len(settled) : settled[k] = Throws

\* The validate calls of the pass that have been made and have not settled.
InFlight == {k \in 1..Len(invoked) : returned[invoked[k].id] = NotCalled}

C21_State ==
    (Sequential /\ pc \in {"seq", "done"}) =>
       /\ Cardinality(InFlight) <= 1
       /\ pc = "seq" => InFlight = {Len(invoked)}
       /\ pc = "done" => InFlight = {}

C21_Step ==
    (Sequential /\ pc = "seq" /\ invoked' # invoked) =>
       /\ returned'[invoked[Len(invoked)].id] # NotCalled
       /\ Len(invoked') = Len(invoked) + 1
       /\ SubSeq(invoked', 1, Len(invoked)) = invoked

\* C21: in sequential mode of execute the validate of the next rule is
\* invoked only after the validate of the previous one has settled; at no
\* point of the pass are two validate calls of that pass in flight.
C21_OneAtATime == [](C21_State) /\ [][C21_Step]_vars

\* A sequential pass in which a second rule was called after the first one
\* had thrown, and a third after the second had returned.
C21_Witness ==
    /\ Sequential
    /\ pc = "seq"
    /\ Len(invoked) = 3
    /\ returned[invoked[1].id] = Throws
    /\ returned[invoked[2].id].tag = "array"

C22_State ==
    (Sequential /\ halt = "timeout") =>
       /\ pc = "done"
       /\ options.timeoutMs > 0
       /\ \A j \in (idx + 1)..Len(applicableRules) :
             /\ ~WasInvoked(applicableRules[j])
             /\ ~InList(executedRules, applicableRules[j].id)
             /\ ~InList(skippedRules, applicableRules[j].id)

C22_Step ==
    /\ \A out \in ValidateOutcomes :
          (Sequential /\ options.timeoutMs > 0 /\ SeqResume(out, TRUE)) =>
             /\ invoked' = invoked
             /\ pc' = "done"
    /\ (Sequential /\ pc = "seq" /\ pc' # "seq") =>
          returned'[applicableRules[idx].id] # NotCalled

\* C22: in sequential execute with timeoutMs positive, after each rule
\* settles, whether it returned or threw, the elapsed time is compared with
\* timeoutMs and, if it is exceeded, no further rule is invoked; the pass
\* ends only in a step in which the rule in flight settles, and the rules
\* not reached are in neither executedRules nor skippedRules.
C22_SoftTimeout == [](C22_State) /\ [][C22_Step]_vars

\* The text content of an element parsed to an object with a "#text" member:
\* the text, trimmed, when it is not blank, or the decimal string when the
\* parser made a number of it.
TextContent(node) ==
    IF ~HasText(node) THEN {}
    ELSE IF TextOf(node).k = "str" /\ Trim(TextOf(node).v) # << >> THEN {Trim(TextOf(node).v)}
    ELSE IF TextOf(node).k = "num" THEN {DecString(TextOf(node).v)}
    ELSE {}

\* C24: for every matching key that the walk comes to whose value is an
\* object with a "#text" member of non-empty text content, the sequence that
\* extractFieldValues returns contains that text content; for a matching key
\* whose value is any other object or an array, the search continues inside
\* that value.
C24_TextUnwrapping ==
    called = "extractFieldValues" =>
       \A o \in Walked(tree, field) : \A i \in 1..Len(o.v) :
          KeyMatches(o.v[i].key, field) =>
             /\ HasText(o.v[i].val) => TextContent(o.v[i].val) \subseteq Range(result)
             /\ (o.v[i].val.k \in {"obj", "arr"} /\ ~HasText(o.v[i].val)) =>
                   ValuesOfMatches(Walked(o.v[i].val, field), field) \subseteq Range(result)

----------------------------------------------------------------------------
NoDuplicates(list) == \A i, j \in 1..Len(list) : list[i] = list[j] => i = j

\* C25: in the result of one execute call, executedRules and skippedRules
\* are disjoint, neither holds an id twice, and every id in either of them
\* is the id of a rule that was registered and enabled when the pass started.
C25_ResultLists ==
    ExecuteDone =>
       /\ Range(executedRules) \cap Range(skippedRules) = {}
       /\ NoDuplicates(executedRules)
       /\ NoDuplicates(skippedRules)
       /\ \A id \in Range(executedRules) \cup Range(skippedRules) :
             HasRule(rules, id) /\ GetRule(rules, id).enabled

\* A pass over three registered rules, one of them disabled, that executed
\* one rule and skipped another.
C25_Witness ==
    /\ ExecuteDone
    /\ Len(rules) = 3
    /\ \E i \in 1..Len(rules) : ~rules[i].enabled
    /\ executedRules # << >>
    /\ skippedRules # << >>

SpecificDone == kind = "executeSpecific" /\ pc = "done"

\* C26: executeSpecific treats ruleIds as a set: in one call the validate of
\* a requested rule is invoked at most once and each of its findings is in
\* the result once, also when ruleIds names the id more than once; an id
\* that is not registered, or whose rule is disabled, is in neither
\* executedRules nor skippedRules.
C26_AllowList ==
    SpecificDone =>
       /\ NoDuplicates(invoked)
       /\ NoDuplicates(errors \o warnings)
       /\ \A id \in Range(executedRules) \cup Range(skippedRules) :
             HasRule(rules, id) /\ GetRule(rules, id).enabled

\* The findings of a result without the context they were made for.
Untagged(findings) ==
    [k \in 1..Len(findings) |->
        [rule |-> findings[k].rule, n |-> findings[k].n, severity |-> findings[k].severity]]

Observed(p) ==
    [errors |-> Untagged(pass[p].errors), warnings |-> Untagged(pass[p].warnings),
     executedRules |-> pass[p].executedRules, skippedRules |-> pass[p].skippedRules]

\* Two finished calls of execute on the same registry and context, with
\* stopOnFirstError and timeoutMs unset, in which every rule did the same:
\* p in parallel mode, q in sequential mode.
SameRun(p, q) ==
    /\ pass[p].pc = "done"
    /\ pass[q].pc = "done"
    /\ pass[p].options = [NoOptions EXCEPT !.parallel = TRUE]
    /\ pass[q].options = NoOptions
    /\ pass[p].registry = pass[q].registry
    /\ pass[p].answers = pass[q].answers
    /\ pass[p].returned = pass[q].returned

\* C27: with stopOnFirstError and timeoutMs unset and rules that do the same
\* in both calls, a parallel and a sequential execute on the same registry
\* and context return the same errors, warnings, executedRules and
\* skippedRules, in the same order, whatever the order in which the promises
\* of the parallel call settled.
C27_ModesEquivalent ==
    \A p, q \in Passes : SameRun(p, q) => Observed(p) = Observed(q)

\* A parallel and a sequential call that were in flight together, over two
\* rules of which one returned an error and a warning and the other threw.
C27_Witness ==
    \E p, q \in Passes :
       /\ SameRun(p, q)
       /\ pass[p].met
       /\ pass[p].errors # << >>
       /\ pass[p].warnings # << >>
       /\ Len(pass[p].executedRules) = 1
       /\ Len(pass[p].skippedRules) = 1

\* The rules a call of execute is to run, from the registry as it was when
\* the call was made and the context: the enabled rules that apply, in
\* priority order.
RulesAtStart(me) ==
    FilterApplicable(SelectSeq(GetAllRules(me.registry), IsEnabled), me.answers).applicable

Idents(seq) == [k \in 1..Len(seq) |-> Ident(seq[k])]

IsPrefixOf(a, b) == Len(a) <= Len(b) /\ SubSeq(b, 1, Len(a)) = a

Unbroken(me) == ~me.options.stopOnFirstError /\ me.options.timeoutMs = 0

C28_State ==
    \A p \in Passes :
       pass[p].pc # "idle" =>
          /\ IsPrefixOf(Idents(pass[p].ran), Idents(RulesAtStart(pass[p])))
          /\ (pass[p].pc = "done" /\ Unbroken(pass[p])) =>
                Idents(pass[p].ran) = Idents(RulesAtStart(pass[p]))

C28_Step ==
    \A p \in Passes :
       /\ (engine' # engine) => pass'[p] = pass[p]
       /\ (pass[p].pc = "idle" /\ pass'[p].pc # "idle") => pass'[p].registry = engine

\* C28: the rules a pass runs, and their order, are fixed by the registry at
\* the moment execute is called: whatever register, unregister and
\* setRuleEnabled calls interleave at its awaits, the rule objects whose
\* validate it calls are, in order, the enabled applicable rules of the
\* registry as it was at the call, none added, removed or replaced; a pass
\* started later starts from the registry as those calls left it.
C28_FixedAtCall == [](C28_State) /\ [][C28_Step]_vars

\* A sequential pass over two rules is over and ran both, while the registry
\* has meanwhile lost one of them and holds another object for the other.
C28_Witness ==
    /\ pass[1].pc = "done"
    /\ Len(pass[1].ran) = 2
    /\ Len(engine) = 1
    /\ ~pass[1].options.parallel
    /\ Ident(engine[1]) \notin Range(Idents(pass[1].ran))
    /\ engine[1].id \in {pass[1].ran[k].id : k \in 1..2}

\* The load of the table has failed: its promise is rejected.
LoadRejected == proceduresLoading = "rejected"

\* TUSSCodeRule.validate around its call c of initializeProcedures: when the
\* call throws, the catch returns the one finding TABLE000, a warning;
\* otherwise the rule goes on to look its codes up in the table.
TUSSCodeRuleReturns(c) ==
    IF callers[c] = "threw"
    THEN <<[code |-> "TABLE000", severity |-> "warning", field |-> "sistema"]>>
    ELSE << >>

C29_State ==
    LoadRejected =>
       /\ ~TablePopulated(proceduresTable)
       /\ proceduresError = "error"
       /\ \A c \in Callers :
             callers[c] \in {"returned", "threw"} =>
                /\ Len(TUSSCodeRuleReturns(c)) = 1
                /\ TUSSCodeRuleReturns(c)[1].code = "TABLE000"
                /\ TUSSCodeRuleReturns(c)[1].severity = "warning"

C29_Step ==
    LoadRejected =>
       /\ fetches' = fetches
       /\ proceduresLoading' = proceduresLoading
       /\ proceduresTable' = proceduresTable
       /\ \A c \in Callers :
             (callers[c] = "idle" /\ callers'[c] # "idle") => callers'[c] = "await"

\* C29: a failed load is sticky: once the promise of the load is rejected,
\* every later call of initializeProcedures rejects too, with the error that
\* was kept, no call fetches again and the table stays unpopulated; the
\* table-backed rule whose call it was then returns exactly one finding, the
\* warning TABLE000, on every pass.
C29_StickyFailure == [](C29_State) /\ [][C29_Step]_vars

\* C30: the copies of extractFieldValues compute the same function: on every
\* document and field name the copy of critical-rules.ts and
\* complementary-rules.ts returns the same set of strings as the one of
\* business-rules.ts, zero-padded numbers and unwrapped "#text" included.
C30_CopiesAgree ==
    called = "extractFieldValues" =>
       Range(ExtractFieldValuesCopy(tree, field)) = Range(result)

\* The built-in rules on a classified document: registerBuiltInRules fills
\* the global engine, validateXML calls globalRuleEngine.execute(context).

\* type GuiaType
AllGuiaTypes ==
    {"tissGuiaSP_SADT", "tissGuiaConsulta", "tissGuiaHonorarioIndividual",
     "tissGuiaInternacao", "tissGuiaOdontologia", "tissLoteGuias", "unknown"}

\* The guide types for which `return context.guiaType !== 'unknown'` holds.
KnownGuiaTypes == AllGuiaTypes \ {"unknown"}

sSADT == "tissGuiaSP_SADT"
sConsulta == "tissGuiaConsulta"
sInternacao == "tissGuiaInternacao"
sOdontologia == "tissGuiaOdontologia"
sLote == "tissLoteGuias"

\* A rule class: id, priority, enabled = true, and the guide types for
\* which the body of its appliesTo returns true.
RuleClass(id, priority, accepts) ==
    [id |-> id, priority |-> priority, enabled |-> TRUE, accepts |-> accepts]

UnknownGuiaTypeRule == RuleClass("unknown-guia-type", 20, {"unknown"})
RequiredFieldsRule == RuleClass("required-fields", 100, KnownGuiaTypes)

\* The register calls of registerBuiltInRules, in their order.
BuiltInRules ==
    << RuleClass("xml-declaration", 1, AllGuiaTypes),
       RuleClass("utf8-encoding", 5, AllGuiaTypes),
       RuleClass("tiss-namespace", 10, AllGuiaTypes),
       UnknownGuiaTypeRule,
       RequiredFieldsRule,
       RuleClass("cpf-validation", 110, AllGuiaTypes),
       RuleClass("cnpj-validation", 111, AllGuiaTypes),
       RuleClass("cns-validation", 112, AllGuiaTypes),
       RuleClass("date-format", 120, AllGuiaTypes),
       RuleClass("date-logic", 121, KnownGuiaTypes \ {sLote}),
       RuleClass("tuss-code", 130, {sLote, sSADT, sConsulta, sOdontologia}),
       RuleClass("uf-code", 131, AllGuiaTypes),
       RuleClass("conselho-profissional", 132, AllGuiaTypes),
       RuleClass("authorization-consistency", 140, {sSADT, sConsulta}),
       RuleClass("beneficiary-consistency", 141, AllGuiaTypes),
       RuleClass("value-consistency", 142, {sSADT, sConsulta, sOdontologia}),
       RuleClass("rn-atendimento", 150, AllGuiaTypes),
       RuleClass("carater-atendimento", 151, {sSADT, sConsulta}),
       RuleClass("tipo-consulta", 152, {sConsulta}),
       RuleClass("tuss-version", 190, {sSADT, sConsulta}),
       RuleClass("tabela-procedimento", 191, {sSADT, sConsulta}),
       RuleClass("cid10-obrigatorio", 192, {sInternacao, sSADT}),
       RuleClass("qtd-max-procedimentos", 200, {sSADT, sInternacao}),
       RuleClass("quantidade-sessao", 201, {sSADT}),
       RuleClass("cobertura-acomodacao", 210, {sInternacao}),
       RuleClass("cnes-obrigatorio", 220, AllGuiaTypes),
       RuleClass("dados-executante-completo", 221, AllGuiaTypes),
       RuleClass("dados-solicitante-completo", 222, {sSADT}),
       RuleClass("idade-procedimento", 202, AllGuiaTypes),
       RuleClass("carencia", 211, AllGuiaTypes),
       RuleClass("limite-lote", 230, AllGuiaTypes),
       RuleClass("numero-lote-unico", 231, AllGuiaTypes),
       RuleClass("senha-autorizacao", 240, {sSADT, sInternacao}),
       RuleClass("data-autorizacao-vencida", 241, AllGuiaTypes),
       RuleClass("anexo-obrigatorio", 250, {sSADT}),
       RuleClass("anexo-formato", 251, AllGuiaTypes) >>

BuiltInIds == {BuiltInRules[k].id : k \in 1..Len(BuiltInRules)}

\* globalRuleEngine.register(new X()) for each class, in order: Map.set
\* keeps a key at the place of its first insertion, with the last value.
RegisterAll(rs, classes) ==
    LET all == rs \o classes
        first == SelectSeq([k \in 1..Len(all) |-> k],
                           LAMBDA k : \A j \in 1..(k - 1) : all[j].id # all[k].id)
        LastOf(id) == CHOOSE m \in 1..Len(all) :
                         /\ all[m].id = id
                         /\ \A j \in (m + 1)..Len(all) : all[j].id # id
    IN  [n \in 1..Len(first) |-> all[LastOf(all[first[n]].id)]]

AppliesToAlways(rule, guiaType) == TRUE

\* rule.appliesTo(context): a comparison of context.guiaType.
AppliesTo(rule, guiaType) == guiaType \in rule.accepts

\* The answers of the applicability loop for a context of this guide type.
AppliesAnswers(guiaType) ==
    [id \in BuiltInIds |->
        IF AppliesTo(GetRule(globalRuleEngine, id), guiaType) THEN "true" ELSE "false"]

\* The number of rules of one pass that report anything or throw.
MaxReports == 2

OtherCodes == {"E001"}

\* What validate of a built-in rule other than UnknownGuiaTypeRule gives:
\* no finding, one finding of its own, or a throw.
Returns(findings) == [tag |-> "array", list |-> findings]
ScnThrows == [tag |-> "throw", list |-> << >>]

OtherOutcomes ==
    {ScnThrows, Returns(<< >>)} \cup
    {Returns(<<f>>) : f \in [severity : {"error", "warning"}, code : OtherCodes]}

\* UnknownGuiaTypeRule.validate: one warning W004.
UnknownGuiaTypeFindings == Returns(<<[severity |-> "warning", code |-> "W004"]>>)

ValidateOutcomesOf(rule) ==
    IF rule.id = UnknownGuiaTypeRule.id THEN {UnknownGuiaTypeFindings}
    ELSE OtherOutcomes

\* The ValidationError objects of one rule, with the rule that made them.
ByRule(rule, findings) ==
    [k \in 1..Len(findings) |->
        [rule |-> rule.id, n |-> k, severity |-> findings[k].severity,
         code |-> findings[k].code]]

\* The module is imported: registerBuiltInRules().
RegisterBuiltInRules ==
    /\ globalRuleEngine = << >>
    /\ scn.pc = "idle"
    /\ globalRuleEngine' = RegisterAll(globalRuleEngine, BuiltInRules)
    /\ UNCHANGED scn
    /\ UNCHANGED notScn

\* globalRuleEngine.execute(context), no options: the synchronous prefix up
\* to the first await of the sequential loop.
ScnExecute(guiaType) ==
    /\ globalRuleEngine # << >>
    /\ scn.pc = "idle"
    /\ LET enabled == SelectSeq(GetAllRules(globalRuleEngine), IsEnabled)
           filtered == FilterApplicable(enabled, AppliesAnswers(guiaType))
       IN  scn' = [NoScn EXCEPT
                      !.pc = IF filtered.applicable = << >> THEN "done" ELSE "seq",
                      !.guiaType = guiaType,
                      !.applicableRules = filtered.applicable,
                      !.idx = 1,
                      !.skippedRules = filtered.skipped]
    /\ UNCHANGED globalRuleEngine
    /\ UNCHANGED notScn

\* The awaited executeRule settles: the body of the sequential loop.
ScnResume(out) ==
    /\ scn.pc = "seq"
    /\ LET rule == scn.applicableRules[scn.idx]
           quiet == out = Returns(<< >>) \/ rule.id = UnknownGuiaTypeRule.id
           cat == CategorizeErrors(ByRule(rule, out.list), scn.errors, scn.warnings)
           errs == IF out = ScnThrows THEN scn.errors ELSE cat.errors
           last == scn.idx = Len(scn.applicableRules)
           break == StopCheck(NoOptions, errs) \/ TimeoutCheck(NoOptions, TRUE)
       IN  /\ out \in ValidateOutcomesOf(rule)
           /\ quiet \/ scn.reports < MaxReports
           /\ scn' = [scn EXCEPT
                         !.errors = errs,
                         !.warnings = IF out = ScnThrows THEN @ ELSE cat.warnings,
                         !.executedRules = IF out = ScnThrows THEN @ ELSE Append(@, rule.id),
                         !.skippedRules = IF out = ScnThrows THEN ValidateCaught(rule, @) ELSE @,
                         !.reports = IF quiet THEN @ ELSE @ + 1,
                         !.idx = @ + 1,
                         !.pc = IF last \/ break THEN "done" ELSE "seq"]
    /\ UNCHANGED globalRuleEngine
    /\ UNCHANGED notScn

\* validateXML takes the result; the engine is free for the next document.
ScnReturn ==
    /\ scn.pc = "done"
    /\ scn' = NoScn
    /\ UNCHANGED globalRuleEngine
    /\ UNCHANGED notScn

ScnInit == EngineInit /\ XmlIdle /\ SvcIdle /\ ConIdle /\ DocIdle /\ ScnIdle /\ DetIdle

ScnNext ==
    \/ RegisterBuiltInRules
    \/ \E guiaType \in GuiaTypes : ScnExecute(guiaType)
    \/ \E out \in OtherOutcomes \cup {UnknownGuiaTypeFindings} : ScnResume(out)
    \/ ScnReturn

ScnSpec == ScnInit /\ [][ScnNext]_vars

\* The findings of the result that a rule made.
ScnFindingsBy(id) ==
    SelectSeq(scn.errors \o scn.warnings, LAMBDA f : f.rule = id)

\* The body of the rule's appliesTo is false on the type "unknown".
RequiresKnownType(rule) == "unknown" \notin rule.accepts

\* C17: on a document classified "unknown", every registered rule whose
\* appliesTo requires a known type is in skippedRules and contributes no
\* finding, and UnknownGuiaTypeRule is executed and contributes exactly one
\* finding, a warning with code W004.
C17_UnknownType ==
    (scn.pc = "done" /\ scn.guiaType = "unknown") =>
       /\ \A k \in 1..Len(globalRuleEngine) :
             RequiresKnownType(globalRuleEngine[k]) =>
                /\ Occurrences(scn.skippedRules, globalRuleEngine[k].id) = 1
                /\ ~InList(scn.executedRules, globalRuleEngine[k].id)
                /\ ScnFindingsBy(globalRuleEngine[k].id) = << >>
       /\ Occurrences(scn.executedRules, UnknownGuiaTypeRule.id) = 1
       /\ ~InList(scn.skippedRules, UnknownGuiaTypeRule.id)
       /\ Len(ScnFindingsBy(UnknownGuiaTypeRule.id)) = 1
       /\ ScnFindingsBy(UnknownGuiaTypeRule.id)[1].severity = "warning"
       /\ ScnFindingsBy(UnknownGuiaTypeRule.id)[1].code = "W004"
       /\ ScnFindingsBy(UnknownGuiaTypeRule.id)[1] \in Range(scn.warnings)

\* An unknown document on which RequiredFieldsRule was skipped, another rule
\* reported an error before UnknownGuiaTypeRule ran and one threw.
C17_Witness ==
    /\ scn.pc = "done"
    /\ scn.guiaType = "unknown"
    /\ InList(scn.skippedRules, RequiredFieldsRule.id)
    /\ InList(scn.skippedRules, "xml-declaration")
    /\ ScnFindingsBy("tiss-namespace") # << >>
    /\ scn.errors # << >>
    /\ InList(scn.executedRules, UnknownGuiaTypeRule.id)

----------------------------------------------------------------------------
\* detectGuiaType: the classification of a document by the markers in its text

mLoteGuias == <<"l", "o", "t", "e", "G", "u", "i", "a", "s">>
mMensagemTISS == <<"m", "e", "n", "s", "a", "g", "e", "m", "T", "I", "S", "S">>
mGuiaSPSADTHyphen == <<"g", "u", "i", "a", "S", "P", "-", "S", "A", "D", "T">>
mGuiaSPSADT == <<"g", "u", "i", "a", "S", "P", "S", "A", "D", "T">>
mGuiaConsulta == <<"g", "u", "i", "a", "C", "o", "n", "s", "u", "l", "t", "a">>
mGuiaHonorarios == <<"g", "u", "i", "a", "H", "o", "n", "o", "r", "a", "r", "i", "o", "s">>
mHonorarioIndividual == <<"h", "o", "n", "o", "r", "a", "r", "i", "o", "I", "n", "d", "i", "v", "i", "d", "u", "a", "l">>
mGuiaInternacao == <<"g", "u", "i", "a", "I", "n", "t", "e", "r", "n", "a", "c", "a", "o">>
mSolicitacaoInternacao == <<"s", "o", "l", "i", "c", "i", "t", "a", "c", "a", "o", "I", "n", "t", "e", "r", "n", "a", "c", "a", "o">>
mGuiaOdonto == <<"g", "u", "i", "a", "O", "d", "o", "n", "t", "o">>
mOdontologia == <<"o", "d", "o", "n", "t", "o", "l", "o", "g", "i", "a">>

\* Other pieces of text: a tag opening, and two halves of a marker.
tOpen == <<"<", "a", "n", "s", ":">>
tGuia == <<"g", "u", "i", "a">>
tConsulta == <<"C", "o", "n", "s", "u", "l", "t", "a">>

DetectGuiaTypeEarlier(text) ==
    IF Includes(text, mGuiaSPSADTHyphen) \/ Includes(text, mGuiaSPSADT) THEN "tissGuiaSP_SADT"
    ELSE IF Includes(text, mGuiaConsulta) THEN "tissGuiaConsulta"
    ELSE IF Includes(text, mGuiaHonorarios) \/ Includes(text, mHonorarioIndividual)
    THEN "tissGuiaHonorarioIndividual"
    ELSE IF Includes(text, mGuiaInternacao) \/ Includes(text, mSolicitacaoInternacao)
    THEN "tissGuiaInternacao"
    ELSE IF Includes(text, mGuiaOdonto) \/ Includes(text, mOdontologia)
    THEN "tissGuiaOdontologia"
    ELSE IF Includes(text, mLoteGuias) \/ Includes(text, mMensagemTISS) THEN "tissLoteGuias"
    ELSE "unknown"

\* detectGuiaType(xmlContent): the batch first, then the individual types.
DetectGuiaType(text) ==
    IF Includes(text, mLoteGuias) \/ Includes(text, mMensagemTISS) THEN "tissLoteGuias"
    ELSE IF Includes(text, mGuiaSPSADTHyphen) \/ Includes(text, mGuiaSPSADT)
    THEN "tissGuiaSP_SADT"
    ELSE IF Includes(text, mGuiaConsulta) THEN "tissGuiaConsulta"
    ELSE IF Includes(text, mGuiaHonorarios) \/ Includes(text, mHonorarioIndividual)
    THEN "tissGuiaHonorarioIndividual"
    ELSE IF Includes(text, mGuiaInternacao) \/ Includes(text, mSolicitacaoInternacao)
    THEN "tissGuiaInternacao"
    ELSE IF Includes(text, mGuiaOdonto) \/ Includes(text, mOdontologia)
    THEN "tissGuiaOdontologia"
    ELSE "unknown"

\* The texts: up to MaxFragments pieces, one after the other.
MaxFragments == 3

Fragments ==
    {mLoteGuias, mMensagemTISS, mGuiaSPSADTHyphen, mGuiaSPSADT, mGuiaConsulta,
     mGuiaHonorarios, mHonorarioIndividual, mGuiaInternacao, mSolicitacaoInternacao,
     mGuiaOdonto, mOdontologia, tOpen, tGuia, tConsulta}

Texts == {Flatten(parts) : parts \in UNION {[1..n -> Fragments] : n \in 0..MaxFragments}}

\* const guiaType = detectGuiaType(cleanContent)
CallDetectGuiaType ==
    /\ detected = "none"
    /\ detected' = DetectGuiaType(xmlContent)
    /\ UNCHANGED xmlContent
    /\ UNCHANGED notDet

DetInit ==
    /\ EngineInit
    /\ XmlIdle
    /\ SvcIdle
    /\ ConIdle
    /\ DocIdle
    /\ ScnIdle
    /\ xmlContent \in Texts
    /\ detected = "none"

DetNext == CallDetectGuiaType

DetSpec == DetInit /\ [][DetNext]_vars

Has(marker) == Includes(xmlContent, marker)

BatchMarked == Has(mLoteGuias) \/ Has(mMensagemTISS)

\* The individual guide types, each with the markers characteristic of it.
MarkersOf ==
    [tissGuiaSP_SADT |-> {mGuiaSPSADTHyphen, mGuiaSPSADT},
     tissGuiaConsulta |-> {mGuiaConsulta},
     tissGuiaHonorarioIndividual |-> {mGuiaHonorarios, mHonorarioIndividual},
     tissGuiaInternacao |-> {mGuiaInternacao, mSolicitacaoInternacao},
     tissGuiaOdontologia |-> {mGuiaOdonto, mOdontologia}]

IndividualTypes == DOMAIN MarkersOf

IndividualMarked == \E t \in IndividualTypes : \E m \in MarkersOf[t] : Has(m)

\* C23: detectGuiaType returns tissLoteGuias for every text that contains a
\* batch marker, also when the text contains markers of an individual guide
\* type; an individual type is returned only when no batch marker is present
\* (and a marker of that type is), and "unknown" only when the text contains
\* no marker of any type.
C23_BatchPrecedence ==
    detected # "none" =>
       /\ BatchMarked => detected = "tissLoteGuias"
       /\ detected = "tissLoteGuias" => BatchMarked
       /\ detected \in IndividualTypes =>
             /\ ~BatchMarked
             /\ \E m \in MarkersOf[detected] : Has(m)
       /\ (~BatchMarked /\ IndividualMarked) => detected \in IndividualTypes
       /\ detected = "unknown" <=> (~BatchMarked /\ ~IndividualMarked)

\* A batch whose text also holds the marker of an individual guide was
\* classified as a batch.
C23_Witness ==
    /\ detected = "tissLoteGuias"
    /\ Has(mGuiaConsulta)
    /\ Has(mLoteGuias)

====
